---------------------------- MODULE Spec2Model ----------------------------
(***************************************************************************)
(* A model of the CSS animation / transition engine of                     *)
(* WebCore/page/AnimationController.cpp: the AnimationBase state machine,  *)
(* ImplicitAnimation (transitions), KeyframeAnimation, CompositeAnimation  *)
(* and AnimationControllerPrivate.                                         *)
(*                                                                         *)
(* Time is counted in whole ticks.  currentTime() is seconds since 1970,   *)
(* so the clock starts at Epoch, far above every duration.  Durations,     *)
(* delays and keyframe keys are integers (keys in units of 1/KeyDen) and   *)
(* progress values are exact fractions <<numerator, denominator>>.  Only   *)
(* the linear timing function is modelled.                                 *)
(***************************************************************************)
EXTENDS Integers, Sequences, FiniteSets, TLC

\* ------------------------------------------------------------------ bounds
\* Number of clock ticks the model follows after Epoch.
MaxTime == 2
\* Number of unreferenced (leaked) KeyframeAnimation objects the model counts.
MaxLeaked == 1

\* currentTime() at the start of the run: larger than any span of the model.
Epoch == 10 * (MaxTime + 2)
\* Keyframe keys are key / KeyDen.
KeyDen == 2

\* ------------------------------------------------------ the property registry
\* Two of the PropertyWrapper<int> entries of ensurePropertyMap, in
\* registration order.
PropOrder == <<"letter-spacing", "word-spacing">>
Props == {PropOrder[i] : i \in 1..Len(PropOrder)}
cAnimateAll == "all"
getNumProperties == Len(PropOrder)
getPropertyAtIndex(i) == PropOrder[i + 1]
Vals == {0, 1}
Names == {"a", "b"}

\* ------------------------------------------------------------- declarations
\* An Animation object of the style (a transition or an animation
\* declaration).  count < 0 is the infinite iteration count.
Decl(key, dur, delay, count, alt, playing, valid, kf) ==
    [key |-> key, dur |-> dur, delay |-> delay, count |-> count, alt |-> alt,
     playing |-> playing, valid |-> valid, kf |-> kf]
duration(d) == d.dur
delay(d) == d.delay
iterationCount(d) == d.count
direction(d) == d.alt
isValidAnimation(d) == d.valid

\* Keyframe lists: the affected properties and the (key, value) frames; a
\* frame gives the same value to every affected property.
Frame(k, v) == [key |-> k, val |-> v]
KeyframeLists ==
    [ ok1   |-> [props |-> {"letter-spacing"},
                 frames |-> <<Frame(0, 0), Frame(KeyDen, 1)>>],
      ok3   |-> [props |-> {"letter-spacing", "word-spacing"},
                 frames |-> <<Frame(0, 1), Frame(1, 0), Frame(KeyDen, 1)>>],
      nokey0 |-> [props |-> {"letter-spacing"},
                  frames |-> <<Frame(1, 0), Frame(KeyDen, 1)>>],
      empty |-> [props |-> {}, frames |-> <<>>] ]
keyframeList(d) == KeyframeLists[d.kf]
kfProps(d) == keyframeList(d).props
kfIsEmpty(d) == keyframeList(d).frames = <<>>

\* Animation::animationsMatch: every field but the play state.
animationsMatch(d, e) == [d EXCEPT !.playing = TRUE] = [e EXCEPT !.playing = TRUE]


\* ------------------------------------------------------- AnimationBase state
AnimStates == {"NEW", "START_WAIT_TIMER", "START_WAIT_STYLE_AVAILABLE",
               "START_WAIT_RESPONSE", "LOOPING", "ENDING", "PAUSED_WAIT_TIMER",
               "PAUSED_WAIT_RESPONSE", "PAUSED_RUN", "DONE"}
PausedStates == {"PAUSED_WAIT_TIMER", "PAUSED_WAIT_RESPONSE", "PAUSED_RUN"}

\* The one-shot m_animationTimerCallback: its event type tag, its deadline and
\* the elapsed time it carries.  (The constructor's startOneShot(0) carries an
\* empty event type; its firing changes nothing and is left out.)
NoTimer == [tag |-> "off", at |-> 0, el |-> 0]
Timer(tag, at, el) == [tag |-> tag, at |-> at, el |-> el]

NoAnim == [kind |-> "none"]

\* A freshly constructed ImplicitAnimation ("T") or KeyframeAnimation ("K").
\* key is m_animatingProperty or m_name.  m_fromStyle / m_toStyle are kept as
\* the value of the animating property (hasStyle tells whether they are set).
\* hist is a history variable: the states m_animState went through, until the
\* first pause, force-end or restart of a started animation ("X").
\* resumedWait is a history variable: the animation was resumed from
\* PAUSED_WAIT_TIMER since it was constructed or restarted.
\* loops is a history variable: the number of times the loop timer has fired,
\* as long as the animation is followed and every firing came at the time the
\* timer was armed for; -1 afterwards.
NewAnimation(kind, key, decl, index) ==
    [kind |-> kind, key |-> key, decl |-> decl, index |-> index,
     st |-> "NEW", startTime |-> 0, pauseTime |-> -1,
     timer |-> NoTimer, evt |-> "none", waitingForEndEvent |-> FALSE,
     animating |-> FALSE,
     overridden |-> FALSE, hasStyle |-> FALSE, from |-> 0, to |-> 0,
     hist |-> <<"NEW">>, resumedWait |-> FALSE, loops |-> 0]

waitingToStart(a) == a.st \in {"NEW", "START_WAIT_TIMER"}
preactive(a) == a.st \in {"NEW", "START_WAIT_TIMER", "START_WAIT_STYLE_AVAILABLE",
                          "START_WAIT_RESPONSE"}
postactive(a) == a.st = "DONE"
active(a) == ~postactive(a) /\ ~preactive(a)
isnew(a) == a.st = "NEW"
running(a) == ~isnew(a) /\ ~postactive(a)
paused(a) == a.pauseTime >= 0
waitingForStartTime(a) == a.st = "START_WAIT_RESPONSE"
waitingForStyleAvailable(a) == a.st = "START_WAIT_STYLE_AVAILABLE"
playStatePlaying(a) == a.decl.playing
overridden(a) == a.kind = "T" /\ a.overridden

\* m_animState = s, with the history kept.
SetState(a, s) ==
    [a EXCEPT !.st = s,
              !.hist = IF a.hist = <<"X">> \/ a.hist[Len(a.hist)] = s
                       THEN a.hist ELSE Append(a.hist, s)]
\* The animation was paused, force-ended or restarted: stop following it.
Taint(a) == [a EXCEPT !.hist = <<"X">>, !.loops = -1]

\* AnimationBase::cancelTimers; first the one that stops the event dispatcher
\* only.
cancelTimersDispatcherOnly(a) == [a EXCEPT !.evt = "none"]
cancelTimers(a) == [a EXCEPT !.timer = NoTimer, !.evt = "none"]

\* fmod(x, y) for whole numbers, y > 0.
fmod(x, y) == x % y

\* AnimationBase::primeEventTimers.  With an infinite count and duration 0
\* fmod is NaN in the source; the model gives such declarations no life (see
\* declarations).  First the one that takes the boundary at the total
\* duration for a loop.
primeEventTimersLoopsAtEnd(a, now) ==
    LET d == a.decl
        elapsedDuration == now - a.startTime
        totalDuration == IF iterationCount(d) > 0
                         THEN duration(d) * iterationCount(d) ELSE -1
        inside == totalDuration < 0 \/ elapsedDuration < totalDuration
        durationLeft == IF inside
                        THEN duration(d) - fmod(elapsedDuration, duration(d))
                        ELSE 0
        nextIterationTime == IF inside THEN elapsedDuration + durationLeft
                             ELSE totalDuration
    IN  IF totalDuration < 0 \/ nextIterationTime <= totalDuration
        THEN [SetState(a, "LOOPING") EXCEPT
                 !.timer = Timer("iter", now + durationLeft, nextIterationTime)]
        ELSE [SetState(a, "ENDING") EXCEPT
                 !.timer = Timer("end", now + durationLeft, nextIterationTime)]
primeEventTimers(a, now) ==
    LET d == a.decl
        elapsedDuration == now - a.startTime
        totalDuration == IF iterationCount(d) > 0
                         THEN duration(d) * iterationCount(d) ELSE -1
        inside == totalDuration < 0 \/ elapsedDuration < totalDuration
        durationLeft == IF inside
                        THEN duration(d) - fmod(elapsedDuration, duration(d))
                        ELSE 0
        nextIterationTime == IF inside THEN elapsedDuration + durationLeft
                             ELSE totalDuration
    IN  IF totalDuration < 0 \/ nextIterationTime < totalDuration
        THEN [SetState(a, "LOOPING") EXCEPT
                 !.timer = Timer("iter", now + durationLeft, nextIterationTime)]
        ELSE [SetState(a, "ENDING") EXCEPT
                 !.timer = Timer("end", now + durationLeft, nextIterationTime)]

\* STATE_INPUT_START_TIME_SET received in STATE_START_WAIT_RESPONSE; first the
\* one that takes the start time given whether or not one is set.
InputStartTimeSetAlways(a, param, now) ==
    primeEventTimers([a EXCEPT !.startTime = param], now)
InputStartTimeSet(a, param, now) ==
    primeEventTimers([a EXCEPT !.startTime = IF a.startTime <= 0 THEN param
                                             ELSE a.startTime], now)

\* sendAnimationEvent / sendTransitionEvent: with a listener for the event the
\* event-delivery timer is armed with the event type.
SendEvent(a, type, lis) ==
    IF type \in lis
    THEN [a EXCEPT !.waitingForEndEvent = TRUE, !.evt = type]
    ELSE a
onAnimationStart(a, lis) ==
    IF a.kind = "K" THEN SendEvent(a, "animationstart", lis) ELSE a
onAnimationIteration(a, lis) ==
    IF a.kind = "K" THEN SendEvent(a, "animationiteration", lis) ELSE a
onAnimationEnd(a, lis) ==
    IF a.kind = "K" THEN SendEvent(a, "animationend", lis)
    ELSE SendEvent(a, "transitionend", lis)
EventTypes == {"animationstart", "animationiteration", "animationend", "transitionend"}

\* ------------------------------------------------- the composite as a value
\* The operators below rewrite a record W: one CompositeAnimation (m_transitions
\* as trans, m_keyframeAnimations as kfs, m_suspended, m_numStyleAvailableWaiters
\* as waiters), the controller's m_numStyleAvailableWaiters as g, and two
\* observation fields: live (per slot, the objects this composite constructed
\* that are not yet destroyed; an object that left the map without being
\* deleted stays counted when the composite itself is deleted) and ev (what the current operation did: a failed ASSERT, a
\* decrement of a zero counter, a read through a null style, an object
\* destroyed, a resume, a visit of updateTransitions).  The uint32_t counters
\* are kept as integers; -1 stands for the wrapped value 0xFFFFFFFF.
Slots == ({"T"} \X Props) \cup ({"K"} \X Names)
\* The element of a one-element set.  { F(V) : V \in {W} } fixes the value of
\* W before F works on it.
Value(S) == CHOOSE v \in S : TRUE
\* The sequences that hold each element of S once.
Orders(S) ==
    {o \in [1..Cardinality(S) -> S] : \A i, j \in DOMAIN o : o[i] = o[j] => i = j}
NoSlot == <<"-", "-">>
Ev(tag, slot, x, y) == [tag |-> tag, r |-> "-", slot |-> slot, x |-> x, y |-> y]
GetA(W, s) == IF s[1] = "T" THEN W.trans[s[2]] ELSE W.kfs[s[2]]
PutA(W, s, a) == IF s[1] = "T" THEN [W EXCEPT !.trans[s[2]] = a]
                 ELSE [W EXCEPT !.kfs[s[2]] = a]
FlagAt(W, tag, slot, x, y) == [W EXCEPT !.ev = @ \cup {Ev(tag, slot, x, y)}]
Flag(W, what) == FlagAt(W, what, NoSlot, 0, 0)

\* CompositeAnimation::setWaitingForStyleAvailable and the controller's.
setWaitingForStyleAvailable(W, waiting) ==
    IF waiting
    THEN [W EXCEPT !.waiters = @ + 1, !.g = @ + 1]
    ELSE [W EXCEPT !.waiters = @ - 1, !.g = @ - 1,
                   !.ev = IF W.waiters = 0 \/ W.g = 0
                          THEN @ \cup {Ev("underflow", NoSlot, 0, 0)} ELSE @]

\* An animation that leaves without giving its slot back.
releaseWaiterNever(W, a) == W
\* The slot released when an animation leaves START_WAIT_STYLE_AVAILABLE by
\* MAKE_NEW / RESTART / END or by its destructor.
releaseWaiter(W, a) ==
    IF a.st = "START_WAIT_STYLE_AVAILABLE"
    THEN setWaitingForStyleAvailable(W, FALSE) ELSE W

\* AnimationBase::updateStateMachine.  It calls itself, as the source does:
\* RESTART sends START_ANIMATION, PAUSE_OVERRIDE in START_WAIT_RESPONSE sends
\* START_TIME_SET, and STYLE_AVAILABLE and the resume of a paused animation
\* send START_TIME_SET with the current time in the same call when
\* startAnimation does not take the animation over.
RECURSIVE updateStateMachine(_, _, _, _, _, _)

\* STATE_INPUT_PAUSE_OVERRIDE and STATE_INPUT_RESUME_OVERRIDE for the
\* animation in slot s (startAnimation and endAnimation do nothing): in
\* START_WAIT_RESPONSE the pause sends START_TIME_SET with the current time.
InputPauseOverride(W, s, now, lis) ==
    IF GetA(W, s).st = "START_WAIT_RESPONSE"
    THEN updateStateMachine(W, s, "START_TIME_SET", now, now, lis)
    ELSE W
InputResumeOverride(W, s) == W

\* ImplicitAnimation::setOverridden for the transition in slot s.
setOverridden(W, s, b, now, lis) ==
    IF b # GetA(W, s).overridden
    THEN updateStateMachine(PutA(W, s, [GetA(W, s) EXCEPT !.overridden = b]), s,
                            IF b THEN "PAUSE_OVERRIDE" ELSE "RESUME_OVERRIDE",
                            -1, now, lis)
    ELSE W

\* CompositeAnimation::overrideImplicitAnimations and
\* resumeOverriddenImplicitAnimations for one property.
overrideImplicitAnimations(W, prop, now, lis) ==
    IF W.trans[prop] # NoAnim
    THEN setOverridden(W, <<"T", prop>>, TRUE, now, lis) ELSE W
resumeOverriddenImplicitAnimations(W, prop, now, lis) ==
    IF W.trans[prop] # NoAnim
    THEN setOverridden(W, <<"T", prop>>, FALSE, now, lis) ELSE W

\* KeyframeAnimation::overrideAnimations / resumeOverriddenAnimations: every
\* property of the keyframe list in turn (the slots are independent, so the
\* order of the HashSet does not matter).  The base class versions do
\* nothing.
RECURSIVE OverEachProperty(_, _, _, _, _)
OverEachProperty(W, props, b, now, lis) ==
    IF props = {} THEN W
    ELSE OverEachProperty(
             Value({IF b
                    THEN overrideImplicitAnimations(V, CHOOSE p \in props : TRUE, now, lis)
                    ELSE resumeOverriddenImplicitAnimations(V, CHOOSE p \in props : TRUE,
                                                            now, lis)
                       : V \in {W}}),
             props \ {CHOOSE p \in props : TRUE}, b, now, lis)
overrideAnimations(W, a, now, lis) ==
    IF a.kind = "K" THEN OverEachProperty(W, kfProps(a.decl), TRUE, now, lis) ELSE W
resumeOverriddenAnimations(W, a, now, lis) ==
    IF a.kind = "K" THEN OverEachProperty(W, kfProps(a.decl), FALSE, now, lis) ELSE W

\* The inputs the ASSERT of each state accepts.
Accepted(st) ==
    CASE st = "NEW" -> {"START_ANIMATION", "PLAY_STATE_RUNNING", "PLAY_STATE_PAUSED"}
      [] st = "START_WAIT_TIMER" -> {"START_TIMER_FIRED", "PLAY_STATE_PAUSED"}
      [] st = "START_WAIT_STYLE_AVAILABLE" -> {"STYLE_AVAILABLE", "PLAY_STATE_PAUSED"}
      [] st = "START_WAIT_RESPONSE" -> {"START_TIME_SET", "PLAY_STATE_PAUSED"}
      [] st = "LOOPING" -> {"LOOP_TIMER_FIRED", "PLAY_STATE_PAUSED"}
      [] st = "ENDING" -> {"END_TIMER_FIRED", "PLAY_STATE_PAUSED"}
      [] st \in PausedStates -> {"PLAY_STATE_RUNNING"}
      [] OTHER -> {"START_ANIMATION", "START_TIMER_FIRED", "STYLE_AVAILABLE",
                   "START_TIME_SET", "LOOP_TIMER_FIRED", "END_TIMER_FIRED",
                   "PLAY_STATE_RUNNING", "PLAY_STATE_PAUSED"}

\* The input that moves a started animation on without pausing it.
Forward(st) ==
    CASE st = "START_WAIT_TIMER" -> "START_TIMER_FIRED"
      [] st = "START_WAIT_STYLE_AVAILABLE" -> "STYLE_AVAILABLE"
      [] st = "START_WAIT_RESPONSE" -> "START_TIME_SET"
      [] st = "LOOPING" -> "LOOP_TIMER_FIRED"
      [] st = "ENDING" -> "END_TIMER_FIRED"
      [] OTHER -> "none"

\* All the ASSERTs a call meets in the state it finds: the one on the
\* input, ASSERT(param >= 0) where a timer or the start time moves the
\* animation on, ASSERT(running()) where a waiting animation takes the pause
\* branch, ASSERT(!running()) in the paused states.
Asserted(a, input, param) ==
    /\ input \in Accepted(a.st)
    /\ (a.st \in {"START_WAIT_TIMER", "START_WAIT_RESPONSE", "LOOPING", "ENDING"}
         /\ input = Forward(a.st)) => param >= 0
    /\ (a.st \in {"START_WAIT_TIMER", "START_WAIT_STYLE_AVAILABLE"}
         /\ input # Forward(a.st)) => running(a)
    /\ a.st \in PausedStates => ~running(a)

\* The history of a started animation stops being followed when it gets an
\* input other than the one that moves it on.
TaintIfDiverted(a, input) ==
    IF ~isnew(a) /\ ~postactive(a) /\ input # Forward(a.st) THEN Taint(a) ELSE a

\* The fields STATE_INPUT_RESTART_ANIMATION resets.
Restarted(a) ==
    [SetState(cancelTimers(IF isnew(a) THEN a ELSE Taint(a)), "NEW")
        EXCEPT !.startTime = 0, !.pauseTime = -1, !.resumedWait = FALSE]

\* STATE_INPUT_MAKE_NEW: as the restart, but the timers are left as they are
\* and no start is requested.
InputMakeNew(a) ==
    [SetState(IF isnew(a) THEN a ELSE Taint(a), "NEW")
        EXCEPT !.startTime = 0, !.pauseTime = -1, !.resumedWait = FALSE]

\* STATE_NEW going on to START_WAIT_TIMER without arming the start timer.
InputStartAnimationWithoutTimer(a, now) == SetState(a, "START_WAIT_TIMER")
\* STATE_NEW receiving START_ANIMATION or PLAY_STATE_RUNNING.
InputStartAnimation(a, now) ==
    [SetState(a, "START_WAIT_TIMER") EXCEPT
        !.timer = Timer("start", now + delay(a.decl), delay(a.decl))]

\* STATE_INPUT_END_ANIMATION; first the one that leaves the timers armed.
InputEndAnimationKeepsTimers(W, s) ==
    PutA(releaseWaiter(W, GetA(W, s)), s, SetState(Taint(GetA(W, s)), "DONE"))
InputEndAnimation(W, s) ==
    PutA(releaseWaiter(W, GetA(W, s)), s,
         SetState(cancelTimers(Taint(GetA(W, s))), "DONE"))

\* The pause branches of the switch.
PausedAt(a, t, st) == SetState([a EXCEPT !.pauseTime = t], st)

\* A resume that forgets the time spent paused.
ResumedWithoutShift(a, now) ==
    [a EXCEPT !.startTime = IF a.st = "PAUSED_WAIT_RESPONSE" THEN 0 ELSE a.startTime,
              !.pauseTime = -1]
\* The time bookkeeping of the three paused states on any input.
Resumed(a, now) ==
    [a EXCEPT !.startTime = IF a.st = "PAUSED_WAIT_RESPONSE" THEN 0
                            ELSE a.startTime + (now - a.pauseTime),
              !.pauseTime = -1]

\* STATE_PAUSED_WAIT_TIMER on any input, up to m_animState = STATE_NEW.
ResumedToNew(a, now) ==
    [SetState(Resumed(a, now), "NEW") EXCEPT !.resumedWait = TRUE]

\* onAnimationStart / onAnimationEnd applied to the animation in slot s, and
\* m_animState = STATE_DONE at the end of the END_TIMER_FIRED branch.
StartEventSent(W, s, lis) == PutA(W, s, onAnimationStart(GetA(W, s), lis))
EndEventSent(W, s, lis) == PutA(W, s, onAnimationEnd(GetA(W, s), lis))
BecomeDone(W, s) == PutA(W, s, SetState(GetA(W, s), "DONE"))

\* A startAnimation that takes the animation over and answers with the
\* start time later.
startAnimationAnswersLater(a, beginTime) == TRUE
\* AnimationBase::startAnimation: nothing takes the animation over, and
\* neither class overrides it.
startAnimation(a, beginTime) == FALSE

\* "if (overridden() || !startAnimation(t)) updateStateMachine(START_TIME_SET,
\* currentTime())" for the animation in slot s; otherwise it waits in
\* START_WAIT_RESPONSE for the start time.
StartOrConfirm(W, s, beginTime, now, lis) ==
    Value({IF overridden(GetA(V, s)) \/ ~startAnimation(GetA(V, s), beginTime)
           THEN updateStateMachine(V, s, "START_TIME_SET", now, now, lis)
           ELSE V : V \in {W}})

\* The switch on m_animState, for the animation a in slot s.  An input the
\* state's ASSERT rejects takes the branch the release build takes.
StateSwitch(W, s, a, input, param, now, lis) ==
    CASE a.st = "NEW" ->
           IF input \in {"START_ANIMATION", "PLAY_STATE_RUNNING"}
           THEN PutA(W, s, InputStartAnimation(a, now)) ELSE PutA(W, s, a)
      [] a.st = "START_WAIT_TIMER" ->
           IF input = "START_TIMER_FIRED"
           THEN setWaitingForStyleAvailable(
                    PutA(W, s, SetState(a, "START_WAIT_STYLE_AVAILABLE")), TRUE)
           ELSE PutA(W, s, PausedAt(cancelTimers(a), now, "PAUSED_WAIT_TIMER"))
      [] a.st = "START_WAIT_STYLE_AVAILABLE" ->
           IF input = "STYLE_AVAILABLE"
           THEN StartOrConfirm(
                    StartEventSent(
                        overrideAnimations(
                            PutA(setWaitingForStyleAvailable(W, FALSE), s,
                                 SetState(a, "START_WAIT_RESPONSE")),
                            a, now, lis),
                        s, lis),
                    s, 0, now, lis)
           ELSE PutA(setWaitingForStyleAvailable(W, FALSE), s,
                     PausedAt(a, 0, "START_WAIT_RESPONSE"))
      [] a.st = "START_WAIT_RESPONSE" ->
           IF input = "START_TIME_SET"
           THEN PutA(W, s, InputStartTimeSet(a, param, now))
           ELSE PutA(W, s, PausedAt(a, 0, "PAUSED_WAIT_RESPONSE"))
      [] a.st = "LOOPING" ->
           IF input = "LOOP_TIMER_FIRED"
           THEN PutA(W, s, primeEventTimers(onAnimationIteration(a, lis), now))
           ELSE PutA(W, s, PausedAt(cancelTimers(a), now, "PAUSED_RUN"))
      [] a.st = "ENDING" ->
           IF input = "END_TIMER_FIRED"
           THEN BecomeDone(
                    resumeOverriddenAnimations(EndEventSent(PutA(W, s, a), s, lis),
                                               a, now, lis),
                    s)
           ELSE PutA(W, s, PausedAt(cancelTimers(a), now, "PAUSED_RUN"))
      [] a.st = "PAUSED_WAIT_TIMER" ->
           updateStateMachine(PutA(W, s, ResumedToNew(a, now)),
                              s, "START_ANIMATION", 0, now, lis)
      [] a.st = "PAUSED_WAIT_RESPONSE" ->
           StartOrConfirm(
               PutA(W, s, SetState(Resumed(a, now), "START_WAIT_RESPONSE")),
               s, Resumed(a, now).startTime, now, lis)
      [] a.st = "PAUSED_RUN" ->
           StartOrConfirm(
               PutA(FlagAt(W, "resumed", s, a.startTime, a.pauseTime), s,
                    SetState(Resumed(a, now), "START_WAIT_RESPONSE")),
               s, Resumed(a, now).startTime, now, lis)
      [] OTHER -> PutA(W, s, a)

Machine(W, s, input, param, now, lis) ==
    CASE input = "MAKE_NEW" ->
           PutA(releaseWaiter(W, GetA(W, s)), s, InputMakeNew(GetA(W, s)))
      [] input = "RESTART_ANIMATION" ->
           updateStateMachine(
               PutA(releaseWaiter(W, GetA(W, s)), s, Restarted(GetA(W, s))),
               s, "START_ANIMATION", -1, now, lis)
      [] input = "END_ANIMATION" -> InputEndAnimation(W, s)
      [] input = "PAUSE_OVERRIDE" -> InputPauseOverride(W, s, now, lis)
      [] input = "RESUME_OVERRIDE" -> InputResumeOverride(W, s)
      [] OTHER ->
           StateSwitch(IF Asserted(GetA(W, s), input, param) THEN W
                       ELSE Flag(W, "assert"),
                       s, TaintIfDiverted(GetA(W, s), input), input, param, now, lis)
\* Observation: the call for the animation in slot s that found it as in V
\* and left it as in M is recorded under the name of the input, with the
\* states before and after, m_pauseTime afterwards and whether the animation
\* timer is armed afterwards.
Noted(V, M, s, input) ==
    FlagAt(M, input, <<s[1], s[2], GetA(V, s).st, GetA(M, s).st>>,
           GetA(M, s).pauseTime, IF GetA(M, s).timer.tag # "off" THEN 1 ELSE 0)
updateStateMachine(W, s, input, param, now, lis) ==
    Value({Value({Noted(V, M, s, input) : M \in {Machine(V, s, input, param, now, lis)}})
              : V \in {W}})

\* AnimationBase::updatePlayState.
updatePlayState(W, s, run, now, lis) ==
    IF paused(GetA(W, s)) = run \/ isnew(GetA(W, s))
    THEN updateStateMachine(W, s, IF run THEN "PLAY_STATE_RUNNING"
                                  ELSE "PLAY_STATE_PAUSED", -1, now, lis)
    ELSE W

\* ------------------------------------------------------ styles and blending
\* A RenderStyle: the values of the animatable properties and the transition
\* and animation declaration lists (an empty list stands for a null list).
Style(vals, trans, anims) ==
    [null |-> FALSE, vals |-> vals, trans |-> trans, anims |-> anims]
NoStyle == [null |-> TRUE, vals |-> [p \in Props |-> 0], trans |-> <<>>, anims |-> <<>>]
hasAnimations(st) == st.anims # <<>>

\* (int) x / d for a double: truncation towards zero.
Trunc(x, d) == IF x >= 0 THEN x \div d ELSE -((-x) \div d)

\* blendFunc(int from, int to, double progress), progress = pr[1] / pr[2].
\* First the blend that runs from 'to' to 'from'.
blendFuncReversed(from, to, pr) == Trunc(to * pr[2] + (from - to) * pr[1], pr[2])
blendFunc(from, to, pr) == Trunc(from * pr[2] + (to - from) * pr[1], pr[2])

\* AnimationControllerPrivate::propertiesEqual for one property of the
\* registry (PropertyWrapperGetter<int>::equals).
propertiesEqual(prop, a, b) == a.vals[prop] = b.vals[prop]

\* The fractional time of progress() and of KeyframeAnimation::animate:
\* elapsed / duration without its whole part, mirrored in the odd iterations
\* of an alternating animation.  The result is a numerator over duration(d).
\* First the fractional time that is mirrored in every iteration.
FractionalTimeMirrored(d, elapsed) == duration(d) - (elapsed % duration(d))
FractionalTime(d, elapsed) ==
    IF direction(d) /\ (elapsed \div duration(d)) % 2 = 1
    THEN duration(d) - (elapsed % duration(d))
    ELSE elapsed % duration(d)

\* AnimationBase::progress(scale, offset) with linear timing.  offset is
\* offKey / KeyDen and scale is KeyDen / scaleDen; progress(1, 0) is
\* progress(a, KeyDen, 0, now).  The result is a fraction <<num, den>>.
\* ElapsedTimePaused is the elapsed time that is always taken at the pause.
ElapsedTimePaused(a, now) == a.pauseTime - a.startTime
ElapsedTime(a, now) ==
    IF running(a) THEN now - a.startTime ELSE a.pauseTime - a.startTime
progress(a, scaleDen, offKey, now) ==
    IF preactive(a) THEN <<0, 1>>
    ELSE IF running(a) /\ ElapsedTime(a, now) < 0 THEN <<0, 1>>
    ELSE IF \/ postactive(a)
            \/ duration(a.decl) = 0
            \/ /\ iterationCount(a.decl) > 0
               /\ ElapsedTime(a, now) >= duration(a.decl) * iterationCount(a.decl)
    THEN <<1, 1>>
    ELSE IF scaleDen # KeyDen \/ offKey # 0
    THEN <<FractionalTime(a.decl, ElapsedTime(a, now)) * KeyDen
               - offKey * duration(a.decl),
           duration(a.decl) * scaleDen>>
    ELSE <<FractionalTime(a.decl, ElapsedTime(a, now)), duration(a.decl)>>

\* An animate() pass is a record x: the composite W and the style R handed
\* from child to child (animatedStyle): null, a copy of the target style, or
\* the target style object itself.  made counts the RenderStyle objects the
\* pass allocated.
NullResult(tgt) == [kind |-> "null", vals |-> tgt.vals, made |-> 0]
EnsureCopy(R) ==
    IF R.kind = "null" THEN [R EXCEPT !.kind = "copy", !.made = @ + 1] ELSE R

\* ImplicitAnimation::reset(renderer, from, to) with both styles given.
resetWithStyles(W, p, cur, tgt, now, lis) ==
    updateStateMachine(
        [W EXCEPT !.trans[p] = [@ EXCEPT !.hasStyle = TRUE, !.from = cur.vals[p],
                                         !.to = tgt.vals[p]]],
        <<"T", p>>, "RESTART_ANIMATION", -1, now, lis)
\* ImplicitAnimation::reset(renderer): both snapshots released.
resetNoStyles(a) == [a EXCEPT !.hasStyle = FALSE, !.from = 0, !.to = 0]

\* Observation: the child in slot s blended the properties props of the
\* style being built to val; x numbers the writes of the pass.
Wrote(W, s, props, val) ==
    [W EXCEPT !.ev = @ \cup {Ev("wrote", <<s[1], s[2], p>>,
                                 Cardinality({e \in @ : e.tag = "wrote"}), val)
                                 : p \in props}]

\* ImplicitAnimation::animate: the blend at the end, and the whole.
ImplicitBlendTo(x, p, val) ==
    [W |-> Wrote([x.W EXCEPT !.trans[p].animating = TRUE], <<"T", p>>, {p}, val),
     R |-> [x.R EXCEPT !.vals[p] = val]]
ImplicitBlend(x, p, now) ==
    Value({ImplicitBlendTo(x, p, val) :
              val \in {blendFunc(x.W.trans[p].from, x.W.trans[p].to,
                                 progress(x.W.trans[p], KeyDen, 0, now))}})
ImplicitAnimate(x, p, cur, tgt, now, lis) ==
    IF paused(x.W.trans[p]) \/ postactive(x.W.trans[p]) THEN x
    ELSE Value({ImplicitBlend(y, p, now) :
                   y \in {[W |-> IF isnew(x.W.trans[p])
                                 THEN resetWithStyles(x.W, p, cur, tgt, now, lis)
                                 ELSE x.W,
                           R |-> EnsureCopy(x.R)]}})

\* KeyframeAnimation::animate: t as a fraction <<tn, td>>.
KeyframeElapsed(a, now) ==
    IF a.startTime > 0 /\ (IF ~paused(a) THEN now ELSE a.pauseTime) > a.startTime
    THEN (IF ~paused(a) THEN now ELSE a.pauseTime) - a.startTime
    ELSE 0
KeyframeTime(a, now) ==
    IF duration(a.decl) # 0
    THEN <<FractionalTime(a.decl, KeyframeElapsed(a, now)), duration(a.decl)>>
    ELSE <<IF direction(a.decl) THEN 1 ELSE 0, 1>>

\* The keyframe scan: the index of the first frame with t < key (0 if none).
FirstAfter(frames, t) ==
    IF \E i \in 1..Len(frames) : t[1] * KeyDen < frames[i].key * t[2]
    THEN CHOOSE i \in 1..Len(frames) :
             /\ t[1] * KeyDen < frames[i].key * t[2]
             /\ \A j \in 1..(i - 1) : ~(t[1] * KeyDen < frames[j].key * t[2])
    ELSE 0

\* The end of KeyframeAnimation::animate: with no bracketing pair of frames
\* (k <= 1) the animation is force-ended, else every property of the keyframe
\* list is blended between frames k - 1 and k.  The "nopair" record tells
\* whether the animation was postactive (x) and had a timer armed (y) when
\* animate returned for want of a pair.  (KeyframeBlendEndsLater returns
\* without forcing the end.)
KeyframeBlendTo(x, n, val) ==
    [W |-> IF kfProps(x.W.kfs[n].decl) # {}
           THEN Wrote([x.W EXCEPT !.kfs[n].animating = TRUE], <<"K", n>>,
                      kfProps(x.W.kfs[n].decl), val)
           ELSE x.W,
     R |-> [EnsureCopy(x.R) EXCEPT !.vals = [p \in Props |->
               IF p \in kfProps(x.W.kfs[n].decl) THEN val ELSE @[p]]]]
NoPair(W, n) ==
    FlagAt(W, "nopair", <<"K", n>>, IF postactive(W.kfs[n]) THEN 1 ELSE 0,
           IF W.kfs[n].timer.tag # "off" \/ W.kfs[n].evt # "none" THEN 1 ELSE 0)
\* Observation of a blend of the keyframe animation n: the fraction t of the
\* scan ("fraction": numerator, denominator), the keys of the pair chosen
\* ("pair": from, to, in units of 1 / KeyDen) and the progress handed to the
\* blender ("local": numerator, denominator).
Blended(W, n, t, keyFrom, keyTo, pr) ==
    FlagAt(FlagAt(FlagAt(W, "fraction", <<"K", n>>, t[1], t[2]),
                  "pair", <<"K", n>>, keyFrom, keyTo),
           "local", <<"K", n>>, pr[1], pr[2])
KeyframeBlendEndsLater(x, n, now, lis, frames, k) ==
    IF k <= 1
    THEN [W |-> NoPair(x.W, n), R |-> x.R]
    ELSE Value({KeyframeBlendTo(x, n, val) :
                   val \in {blendFunc(frames[k - 1].val, frames[k].val,
                                      progress(x.W.kfs[n],
                                               frames[k].key - frames[k - 1].key,
                                               frames[k - 1].key, now))}})
KeyframeBlend(x, n, now, lis, frames, k) ==
    IF k <= 1
    THEN [W |-> Value({NoPair(V, n) :
                          V \in {updateStateMachine(x.W, <<"K", n>>, "END_ANIMATION",
                                                    -1, now, lis)}}),
          R |-> x.R]
    ELSE Value({KeyframeBlendTo([x EXCEPT !.W = Blended(@, n, t, frames[k - 1].key,
                                                        frames[k].key, pr)],
                                n, blendFunc(frames[k - 1].val, frames[k].val, pr)) :
                   t \in {KeyframeTime(x.W.kfs[n], now)},
                   pr \in {progress(x.W.kfs[n], frames[k].key - frames[k - 1].key,
                                    frames[k - 1].key, now)}})

\* KeyframeAnimation::animate after the start request.
KeyframeAnimateStarted(x, n, now, lis) ==
    IF postactive(x.W.kfs[n])
    THEN [W |-> x.W,
          R |-> IF x.R.kind = "null" THEN [x.R EXCEPT !.kind = "target"] ELSE x.R]
    ELSE IF waitingToStart(x.W.kfs[n]) /\ delay(x.W.kfs[n].decl) > 0 THEN x
    ELSE Value({KeyframeBlend(x, n, now, lis, keyframeList(x.W.kfs[n].decl).frames, k) :
                   k \in {FirstAfter(keyframeList(x.W.kfs[n].decl).frames,
                                     KeyframeTime(x.W.kfs[n], now))}})

\* KeyframeAnimation::animate.
KeyframeAnimate(x, n, now, lis) ==
    Value({KeyframeAnimateStarted(y, n, now, lis) :
              y \in {[W |-> IF isnew(x.W.kfs[n]) /\ x.W.kfs[n].decl.playing
                            THEN updateStateMachine(x.W, <<"K", n>>, "START_ANIMATION",
                                                    -1, now, lis)
                            ELSE x.W,
                      R |-> x.R]}})

\* -------------------------------------------------------- CompositeAnimation
NewComposite ==
    [exists |-> TRUE,
     trans |-> [p \in Props |-> NoAnim], kfs |-> [n \in Names |-> NoAnim],
     suspended |-> FALSE, waiters |-> 0,
     live |-> [s \in Slots |-> 0]]
\* No entry for the renderer in m_compositeAnimations.
NoComposite == [NewComposite EXCEPT !.exists = FALSE]

\* new ImplicitAnimation / new KeyframeAnimation: one more live object.
Construct(W, s) == [W EXCEPT !.live[s] = @ + 1]

\* delete of the animation in slot s: ~ImplicitAnimation / ~KeyframeAnimation
\* force the end unless the animation is done (an ImplicitAnimation that
\* waits for its end event runs into ASSERT(0) first), ~AnimationBase releases
\* the waiter slot if the state still is START_WAIT_STYLE_AVAILABLE; the
\* entry leaves the map.  The "destroyed" record tells in x whether m_fromStyle
\* and m_toStyle were still set when the destructor ran.  (RemovedNotDeleted
\* takes the entry out of the map and leaves the object alive.)
Destructed(W, s) ==
    IF ~postactive(GetA(W, s))
    THEN Value({Value({Noted(V, M, s, "END_ANIMATION") : M \in {InputEndAnimation(V, s)}})
                   : V \in {W}})
    ELSE W
RemovedNotDeleted(W, s) ==
    PutA(FlagAt(releaseWaiter(W, GetA(W, s)), "destroyed", s, 0, 0), s, NoAnim)
Removed(W, s) ==
    [PutA(FlagAt(releaseWaiter(W, GetA(W, s)), "destroyed", s,
                 IF GetA(W, s).hasStyle THEN 1 ELSE 0, 0), s, NoAnim)
        EXCEPT !.live[s] = @ - 1]
Destroy(W, s) ==
    Value({Removed(V, s) :
              V \in {Destructed(IF s[1] = "T" /\ GetA(W, s).waitingForEndEvent
                                THEN Flag(W, "assert0") ELSE W, s)}})

\* The (declaration, property) pairs updateTransitions visits, in order: the
\* empty transitions are skipped, 'all' is expanded in registry order.
VisitsOf(anim) ==
    IF duration(anim) = 0 /\ delay(anim) <= 0 THEN <<>>
    ELSE IF anim.key = cAnimateAll
    THEN [i \in 1..getNumProperties |->
             [decl |-> anim, prop |-> getPropertyAtIndex(i - 1)]]
    ELSE <<[decl |-> anim, prop |-> anim.key]>>
RECURSIVE TransitionVisits(_)
TransitionVisits(decls) ==
    IF decls = <<>> THEN <<>>
    ELSE VisitsOf(Head(decls)) \o TransitionVisits(Tail(decls))

\* ImplicitAnimation::isTargetPropertyEqual: "equal" or "different".  With
\* m_toStyle null the wrapper's equals reads through the null pointer and the
\* process is ended by the signal: there is no result.
isTargetPropertyEqual(a, prop, tgt) ==
    IF ~a.hasStyle THEN "SIGSEGV"
    ELSE IF a.to = tgt.vals[prop] THEN "equal" ELSE "different"
\* The operation under way has ended the process ("nullstyle": the read
\* through the null m_toStyle); nothing more of it runs.
Crashed(W) == \E e \in W.ev : e.tag = "nullstyle"

\* new ImplicitAnimation(anim, prop) set in m_transitions; same and had note
\* whether the current and target values were equal and whether the map had
\* a transition for prop when the visit began.
CreateTransition(W, anim, prop, same, had) ==
    [Construct(FlagAt(W, "created", <<"T", prop>>, same, had), <<"T", prop>>)
        EXCEPT !.trans[prop] = NewAnimation("T", prop, anim, 0)]
Bit(b) == IF b THEN 1 ELSE 0

\* The body of the loop of updateTransitions for one property.
UpdateTransitionStep(W, anim, prop, cur, tgt) ==
    IF W.trans[prop] # NoAnim
    THEN CASE isTargetPropertyEqual(W.trans[prop], prop, tgt) = "SIGSEGV" ->
                  FlagAt(W, "nullstyle", <<"T", prop>>, 0, 0)
           [] isTargetPropertyEqual(W.trans[prop], prop, tgt) = "equal" ->
                  FlagAt(W, "kept", <<"T", prop>>,
                         Bit(propertiesEqual(prop, cur, tgt)), 1)
           [] OTHER ->
                  CreateTransition(
                      Destroy([W EXCEPT !.trans[prop] = resetNoStyles(@)],
                              <<"T", prop>>),
                      anim, prop, Bit(propertiesEqual(prop, cur, tgt)), 1)
    ELSE IF propertiesEqual(prop, cur, tgt)
         THEN FlagAt(W, "kept", <<"T", prop>>, 1, 0)
         ELSE CreateTransition(W, anim, prop, 0, 0)

RECURSIVE UpdateTransitionsLoop(_, _, _, _)
UpdateTransitionsLoop(W, visits, cur, tgt) ==
    IF visits = <<>> \/ Crashed(W) THEN W
    ELSE Value({UpdateTransitionsLoop(V, Tail(visits), cur, tgt) :
                   V \in {UpdateTransitionStep(W, Head(visits).decl, Head(visits).prop,
                                               cur, tgt)}})

\* CompositeAnimation::updateTransitions.
updateTransitions(W, cur, tgt) ==
    IF cur.null \/ tgt.trans = <<>> THEN W
    ELSE UpdateTransitionsLoop(W, TransitionVisits(tgt.trans), cur, tgt)

\* deleteAllValues: every animation in the given slots deleted.
RECURSIVE DestroyAll(_, _)
DestroyAll(W, slots) ==
    IF slots = {} THEN W
    ELSE Value({DestroyAll(V, slots \ {CHOOSE x \in slots : TRUE}) :
                   V \in {IF GetA(W, CHOOSE x \in slots : TRUE) # NoAnim
                          THEN Destroy(W, CHOOSE x \in slots : TRUE) ELSE W}})
\* CompositeAnimation::resetAnimations.
resetAnimations(W) == DestroyAll(W, {"K"} \X Names)

\* The first loop of updateKeyframeAnimations: matching animations get the
\* new play state and the new declaration; changed tells whether the lists
\* differ.
Matches(W, anim) ==
    /\ isValidAnimation(anim)
    /\ W.kfs[anim.key] # NoAnim
    /\ animationsMatch(W.kfs[anim.key].decl, anim)
RECURSIVE MatchAnimations(_, _, _, _, _)
MatchAnimations(W, decls, changed, now, lis) ==
    IF decls = <<>> THEN [W |-> W, changed |-> changed]
    ELSE IF Matches(W, Head(decls))
    THEN Value({MatchAnimations(V, Tail(decls), changed, now, lis) :
                   V \in {[updatePlayState(W, <<"K", Head(decls).key>>,
                                           Head(decls).playing, now, lis)
                              EXCEPT !.kfs[Head(decls).key].decl = Head(decls)]}})
    ELSE MatchAnimations(W, Tail(decls), TRUE, now, lis)

\* updateKeyframeAnimations without its test of the iteration count.
CreatesWithoutCountTest(anim) ==
    /\ isValidAnimation(anim)
    /\ (duration(anim) # 0 \/ delay(anim) # 0)
    /\ ~kfIsEmpty(anim)
\* Whether updateKeyframeAnimations makes a KeyframeAnimation for anim.
CreatesKeyframeAnimation(anim) ==
    /\ isValidAnimation(anim)
    /\ (duration(anim) # 0 \/ delay(anim) # 0)
    /\ iterationCount(anim) # 0
    /\ ~kfIsEmpty(anim)

\* The second loop: m_keyframeAnimations.set(name, new KeyframeAnimation).  A
\* name that is already in the map is overwritten; the object that was there
\* stays alive.
RECURSIVE AddAnimations(_, _, _)
AddAnimations(W, decls, index) ==
    IF decls = <<>> THEN W
    ELSE IF CreatesKeyframeAnimation(Head(decls))
    THEN Value({AddAnimations(V, Tail(decls), index + 1) :
                   V \in {[Construct(W, <<"K", Head(decls).key>>) EXCEPT
                              !.kfs[Head(decls).key] =
                                  NewAnimation("K", Head(decls).key, Head(decls),
                                               index)]}})
    ELSE AddAnimations(W, Tail(decls), index)

\* CompositeAnimation::updateKeyframeAnimations: the part after the first
\* loop (m is its result), and the whole.
RebuildIfChanged(m, tgt) ==
    IF ~m.changed /\ Cardinality({n \in Names : m.W.kfs[n] # NoAnim}) = Len(tgt.anims)
    THEN m.W
    ELSE Value({AddAnimations(V, tgt.anims, 0) : V \in {resetAnimations(m.W)}})
updateKeyframeAnimations(W, cur, tgt, now, lis) ==
    IF (\A n \in Names : W.kfs[n] = NoAnim) /\ ~hasAnimations(tgt) THEN W
    ELSE IF ~cur.null /\ hasAnimations(cur) /\ hasAnimations(tgt)
            /\ cur.anims = tgt.anims THEN W
    ELSE Value({RebuildIfChanged(m, tgt) :
                   m \in {MatchAnimations(W, tgt.anims, FALSE, now, lis)}})

\* CompositeAnimation::cleanupFinishedAnimations.  The "purged" record tells
\* of the child the purge deletes whether it waited for its end event (x)
\* and whether it was postactive (y).  First the purge that does not look at
\* the end event.
Purged(W, s) ==
    FlagAt(W, "purged", s, IF GetA(W, s).waitingForEndEvent THEN 1 ELSE 0,
           IF postactive(GetA(W, s)) THEN 1 ELSE 0)
RECURSIVE CleanupLoop(_, _)
CleanupLoop(W, slots) ==
    IF slots = {} THEN W
    ELSE Value({CleanupLoop(V, slots \ {CHOOSE x \in slots : TRUE}) :
                   V \in {Destroy(IF (CHOOSE x \in slots : TRUE)[1] = "T"
                                  THEN [Purged(W, CHOOSE x \in slots : TRUE) EXCEPT
                                           !.trans[(CHOOSE x \in slots : TRUE)[2]] =
                                               resetNoStyles(@)]
                                  ELSE Purged(W, CHOOSE x \in slots : TRUE),
                                  CHOOSE x \in slots : TRUE)}})
cleanupFinishedAnimationsWaitingToo(W) ==
    IF W.suspended THEN W
    ELSE CleanupLoop(W, {s \in Slots : GetA(W, s) # NoAnim /\ postactive(GetA(W, s))})
cleanupFinishedAnimations(W) ==
    IF W.suspended THEN W
    ELSE CleanupLoop(W, {s \in Slots : GetA(W, s) # NoAnim /\ postactive(GetA(W, s))
                                       /\ ~GetA(W, s).waitingForEndEvent})

\* The walk of an iterator over m_transitions, a HashMap keyed by the id of
\* the property: the sequence in which it meets the keys of the map, which
\* the code does not fix (TransitionOrders: every sequence that holds each
\* key of the map once).
TransitionOrders(transitions) == Orders({p \in Props : transitions[p] # NoAnim})

\* The two loops of CompositeAnimation::animate over the children.  walk is
\* the order in which the iterator meets the transitions of the map.
RECURSIVE AnimateTransitions(_, _, _, _, _, _)
AnimateTransitions(x, walk, cur, tgt, now, lis) ==
    IF walk = <<>> THEN x
    ELSE Value({AnimateTransitions(y, Tail(walk), cur, tgt, now, lis) :
                   y \in {ImplicitAnimate(x, Head(walk), cur, tgt, now, lis)}})

\* The keyframe animations stepped from the last declaration to the first.
RECURSIVE AnimateKeyframesBackwards(_, _, _, _)
AnimateKeyframesBackwards(x, decls, now, lis) ==
    IF decls = <<>> THEN x
    ELSE Value({AnimateKeyframesBackwards(y, SubSeq(decls, 1, Len(decls) - 1),
                                          now, lis) :
                   y \in {IF /\ isValidAnimation(decls[Len(decls)])
                             /\ x.W.kfs[decls[Len(decls)].key] # NoAnim
                          THEN KeyframeAnimate(x, decls[Len(decls)].key, now, lis)
                          ELSE x}})
RECURSIVE AnimateKeyframes(_, _, _, _)
AnimateKeyframes(x, decls, now, lis) ==
    IF decls = <<>> THEN x
    ELSE Value({AnimateKeyframes(y, Tail(decls), now, lis) :
                   y \in {IF /\ isValidAnimation(Head(decls))
                             /\ x.W.kfs[Head(decls).key] # NoAnim
                          THEN KeyframeAnimate(x, Head(decls).key, now, lis)
                          ELSE x}})

\* CompositeAnimation::animate, stage by stage.  The result is the composite
\* and the style handed back (its values and whether it is the target object
\* or a copy).
\* "return resultStyle ? resultStyle : targetStyle", observed as a "returned"
\* record: x tells whether the style handed back is a copy (1) or the target
\* style object (0), y how many copies the pass allocated.
Returned(W, R) ==
    FlagAt(W, "returned", NoSlot, IF R.kind = "copy" THEN 1 ELSE 0, R.made)
AnimateFinish(x) ==
    [W |-> Returned(cleanupFinishedAnimations(x.W), x.R), R |-> x.R]
AnimateKeyframeStage(x, cur, tgt, now, lis) ==
    Value({AnimateFinish(z) :
              z \in {Value({AnimateKeyframes(y, tgt.anims, now, lis) :
                               y \in {[W |-> updateKeyframeAnimations(x.W, cur, tgt,
                                                                      now, lis),
                                       R |-> x.R]}})}})
AnimateTransitionStage(V, cur, tgt, now, lis, walk) ==
    Value({IF Crashed(x.W) THEN x
           ELSE AnimateTransitions(x, IF cur.null THEN <<>> ELSE walk, cur, tgt, now, lis) :
              x \in {[W |-> updateTransitions(V, cur, tgt),
                      R |-> NullResult(tgt)]}})
\* walk is the order in which the iterator meets the transitions the map
\* holds once updateTransitions has run (AnimateWalks).
animate(W, cur, tgt, now, lis, walk) ==
    Value({IF Crashed(x.W) THEN x ELSE AnimateKeyframeStage(x, cur, tgt, now, lis) :
              x \in {Value({AnimateTransitionStage(V, cur, tgt, now, lis, walk) :
                               V \in {W}})}})
AnimateWalks(W, cur, tgt) == TransitionOrders(updateTransitions(W, cur, tgt).trans)

\* CompositeAnimation::styleAvailable: the keyframe animations in the order
\* of their index, then the transitions in the order in which the iterator
\* meets them (walk).
FirstByIndex(W, names) ==
    CHOOSE x \in names : \A y \in names : W.kfs[x].index <= W.kfs[y].index
\* The keyframe animations taken from the highest index down.
RECURSIVE ByIndexBackwards(_, _)
ByIndexBackwards(W, names) ==
    IF names = {} THEN <<>>
    ELSE ByIndexBackwards(W, names \ {FirstByIndex(W, names)})
             \o <<FirstByIndex(W, names)>>
RECURSIVE ByIndex(_, _)
ByIndex(W, names) ==
    IF names = {} THEN <<>>
    ELSE <<FirstByIndex(W, names)>> \o ByIndex(W, names \ {FirstByIndex(W, names)})
\* Observations: the composite's styleAvailable was called with the waiter
\* counts x (its own) and y (the controller's); the child in slot s was given
\* STYLE_AVAILABLE as number x of the call, y being the child's index.
CalledStyleAvailable(W) == FlagAt(W, "styleAvailable", NoSlot, W.waiters, W.g)
Available(W, s) ==
    FlagAt(W, "available", s, Cardinality({e \in W.ev : e.tag = "available"}),
           GetA(W, s).index)
StyleAvailableTo(W, s, now, lis) ==
    IF GetA(W, s) # NoAnim /\ waitingForStyleAvailable(GetA(W, s))
    THEN updateStateMachine(Available(W, s), s, "STYLE_AVAILABLE", -1, now, lis)
    ELSE W
RECURSIVE StyleAvailableKeyframes(_, _, _, _)
StyleAvailableKeyframes(W, order, now, lis) ==
    IF order = <<>> THEN W
    ELSE StyleAvailableKeyframes(
             Value({StyleAvailableTo(V, <<"K", Head(order)>>, now, lis) : V \in {W}}),
             Tail(order), now, lis)
RECURSIVE StyleAvailableTransitions(_, _, _, _)
StyleAvailableTransitions(W, walk, now, lis) ==
    IF walk = <<>> THEN W
    ELSE StyleAvailableTransitions(
             Value({StyleAvailableTo(V, <<"T", Head(walk)>>, now, lis)
                       : V \in {W}}),
             Tail(walk), now, lis)
StyleAvailableAll(W, now, lis, walk) ==
    IF W.waiters = 0 THEN W
    ELSE StyleAvailableTransitions(
             Value({StyleAvailableKeyframes(W, order, now, lis)
                       : order \in {ByIndex(W, {n \in Names : W.kfs[n] # NoAnim})}}),
             walk, now, lis)
styleAvailable(W, now, lis, walk) ==
    Value({StyleAvailableAll(V, now, lis, walk) : V \in {CalledStyleAvailable(W)}})

\* The loops of CompositeAnimation::suspendAnimations / resumeAnimations:
\* updatePlayState(run) on every slot of the set.
RECURSIVE UpdatePlayStates(_, _, _, _, _)
UpdatePlayStates(W, slots, run, now, lis) ==
    IF slots = {} THEN W
    ELSE UpdatePlayStates(
             updatePlayState(W, CHOOSE x \in slots : TRUE, run, now, lis),
             slots \ {CHOOSE x \in slots : TRUE}, run, now, lis)

\* CompositeAnimation::suspendAnimations.
suspendAnimations(W, now, lis) ==
    IF W.suspended THEN W
    ELSE UpdatePlayStates([W EXCEPT !.suspended = TRUE],
             {s \in Slots : /\ GetA(W, s) # NoAnim
                            /\ (s[1] = "T" => GetA(W, s).hasStyle)},
             FALSE, now, lis)

\* CompositeAnimation::resumeAnimations.
resumeAnimations(W, now, lis) ==
    IF ~W.suspended THEN W
    ELSE UpdatePlayStates([W EXCEPT !.suspended = FALSE],
             {s \in Slots : /\ GetA(W, s) # NoAnim
                            /\ (s[1] = "K" => playStatePlaying(GetA(W, s)))
                            /\ (s[1] = "T" => GetA(W, s).hasStyle)},
             TRUE, now, lis)

\* CompositeAnimation::setAnimationStartTime / setTransitionStartTime.
RECURSIVE StartTimeSet(_, _, _, _, _)
StartTimeSet(W, slots, t, now, lis) ==
    IF slots = {} THEN W
    ELSE StartTimeSet(
             updateStateMachine(W, CHOOSE x \in slots : TRUE, "START_TIME_SET", t,
                                now, lis),
             slots \ {CHOOSE x \in slots : TRUE}, t, now, lis)
setAnimationStartTime(W, t, now, lis) ==
    StartTimeSet(W, {s \in {"K"} \X Names :
                        GetA(W, s) # NoAnim /\ waitingForStartTime(GetA(W, s))},
                 t, now, lis)
setTransitionStartTime(W, property, t, now, lis) ==
    StartTimeSet(W, {s \in {"T"} \X {property} :
                        GetA(W, s) # NoAnim /\ waitingForStartTime(GetA(W, s))},
                 t, now, lis)

\* affectsProperty of both classes, AnimationBase::isAnimatingProperty (first
\* without the test of waitingToStart) and
\* CompositeAnimation::isAnimatingProperty.
affectsProperty(a, property) ==
    IF a.kind = "K" THEN property \in kfProps(a.decl) ELSE a.key = property
isAnimatingPropertyOfAnyState(a, property, isRunningNow) ==
    ~postactive(a) /\ affectsProperty(a, property)
isAnimatingPropertyOf(a, property, isRunningNow) ==
    IF isRunningNow
    THEN ~waitingToStart(a) /\ ~postactive(a) /\ affectsProperty(a, property)
    ELSE ~postactive(a) /\ affectsProperty(a, property)
isAnimatingProperty(C, property, isRunningNow) ==
    \E s \in Slots : /\ GetA(C, s) # NoAnim
                     /\ isAnimatingPropertyOf(GetA(C, s), property, isRunningNow)

\* CompositeAnimation::setAnimating and CompositeAnimation::animating.
setAnimating(C, inAnimating) ==
    [C EXCEPT !.trans = [p \in Props |->
                 IF @[p] = NoAnim THEN NoAnim
                 ELSE [@[p] EXCEPT !.animating = inAnimating]],
              !.kfs = [n \in Names |->
                 IF @[n] = NoAnim THEN NoAnim
                 ELSE [@[n] EXCEPT !.animating = inAnimating]]]
animating(C) ==
    \/ \E p \in Props : /\ C.trans[p] # NoAnim
                         /\ C.trans[p].animating /\ running(C.trans[p])
    \/ \E n \in Names : /\ C.kfs[n] # NoAnim
                         /\ ~paused(C.kfs[n]) /\ C.kfs[n].animating
                         /\ active(C.kfs[n])

\* CompositeAnimation::resetTransitions.
RECURSIVE ResetTransitionsLoop(_, _)
ResetTransitionsLoop(W, props) ==
    IF props = {} THEN W
    ELSE ResetTransitionsLoop(
             IF W.trans[CHOOSE p \in props : TRUE] # NoAnim
             THEN Destroy([W EXCEPT !.trans[CHOOSE p \in props : TRUE] =
                                        resetNoStyles(@)],
                          <<"T", CHOOSE p \in props : TRUE>>)
             ELSE W,
             props \ {CHOOSE p \in props : TRUE})
resetTransitions(W) == ResetTransitionsLoop(W, Props)

\* AnimationControllerPrivate::isAnimatingPropertyOnRenderer: false without
\* a composite.
isAnimatingPropertyOnRenderer(C, property, isRunningNow) ==
    IF ~C.exists THEN FALSE ELSE isAnimatingProperty(C, property, isRunningNow)

\* AnimationControllerPrivate::clear.  The composite is taken out of the map;
\* if there was one, resetTransitions, then ~CompositeAnimation deletes what
\* is in the maps.  The value returned is observed as a "clear" record
\* (x; y tells whether a composite was deleted).
\* The result that ignores the suspension.
clearResultWhenPresent(W) == W.exists
clearResult(W) == IF ~W.exists THEN FALSE ELSE ~W.suspended
clear(W) ==
    FlagAt(IF W.exists
           THEN [DestroyAll(resetTransitions(W), Slots)
                    EXCEPT !.exists = FALSE, !.suspended = FALSE, !.waiters = 0]
           ELSE W,
           "clear", NoSlot, IF clearResult(W) THEN 1 ELSE 0,
           IF W.exists THEN 1 ELSE 0)

\* ~CompositeAnimation as ~AnimationControllerPrivate runs it, by
\* deleteAllValues(m_compositeAnimations): the children are deleted as they
\* are, without resetTransitions.
deleteComposite(W) ==
    [DestroyAll(W, Slots) EXCEPT !.exists = FALSE, !.suspended = FALSE,
                                 !.waiters = 0]

\* ------------------------------------------------ the styles the host declares
\* Transition declarations: one iteration, no keyframes.
Transition(prop, dur, del) == Decl(prop, dur, del, 1, FALSE, TRUE, TRUE, "empty")
tSpacing == Transition("letter-spacing", 2, 0)
tAllDelayed == Transition(cAnimateAll, 0, 1)
tDelayed == Transition("letter-spacing", 0, 1)
tAll == Transition(cAnimateAll, 1, 0)
tNone == Transition("letter-spacing", 0, 0)

\* Animation declarations.
aRun == Decl("a", 2, 0, 1, FALSE, TRUE, TRUE, "ok3")
aPaused == [aRun EXCEPT !.playing = FALSE]
aLoop == Decl("a", 1, 0, 2, TRUE, TRUE, TRUE, "ok1")
bRun == Decl("b", 1, 0, 1, FALSE, TRUE, TRUE, "ok1")
bForever == Decl("b", 1, 1, -1, FALSE, TRUE, TRUE, "ok1")
bInvalid == [bRun EXCEPT !.valid = FALSE]
bZero == [bRun EXCEPT !.dur = 0]
bNoCount == [bRun EXCEPT !.count = 0]
bNoFrames == [bRun EXCEPT !.kf = "empty"]
bNoKey0 == [bRun EXCEPT !.kf = "nokey0"]

\* The pages the engine runs on.  A page's style sheet fixes the transition
\* lists and animation lists the style selector can resolve for an element
\* and the properties whose resolved value changes; full tells whether the
\* embedder also suspends and resumes the document, confirms start times,
\* listens for the events and lets timers fire late on this page.
Page(trans, anims, vary, full) ==
    [trans |-> trans, anims |-> anims, vary |-> vary, full |-> full]
Pages ==
    [ transition |-> Page({<<>>, <<tSpacing>>}, {<<>>}, {"letter-spacing"}, TRUE),
      cover      |-> Page({<<>>, <<tAll, tSpacing>>, <<tNone>>}, {<<>>},
                          {"letter-spacing"}, FALSE),
      all        |-> Page({<<>>, <<tAllDelayed>>}, {<<>>}, Props, FALSE),
      delayed    |-> Page({<<>>, <<tDelayed>>}, {<<>>}, {"letter-spacing"}, FALSE),
      keyframes  |-> Page({<<>>}, {<<>>, <<aRun>>, <<aPaused>>, <<aLoop>>}, {}, TRUE),
      odd        |-> Page({<<>>},
                          {<<>>, <<aRun, aRun>>, <<bForever>>, <<bNoKey0>>,
                           <<bInvalid, bZero, bNoCount, bNoFrames>>}, {}, TRUE),
      both       |-> Page({<<>>, <<tSpacing>>}, {<<>>, <<bRun, aRun>>},
                          {"letter-spacing"}, FALSE),
      two        |-> Page({<<tAll>>}, {<<>>}, {"letter-spacing"}, FALSE) ]
PageNames == DOMAIN Pages


\* ------------------------------------------------------------------- state
Renderers == {"r1", "r2"}

VARIABLES
    page,     \* the page the engine runs on (never changes)
    now,      \* currentTime()
    comp,     \* m_compositeAnimations: per renderer, its CompositeAnimation
    g,        \* AnimationControllerPrivate::m_numStyleAvailableWaiters
    rstyle,   \* renderer->style(): the style the last updateAnimations returned
    css,      \* the property values the style selector resolves for the element
    animationTimer,  \* m_animationTimer.isActive(): the shared repeating timer
    ev,       \* what the last operation did (observation only)
    op,       \* the operation that ran last and its renderer (observation only)
    alive     \* the process runs (FALSE once a signal has ended it)
vars == <<page, now, comp, g, rstyle, css, animationTimer, ev, op, alive>>

\* The sets of event types the document has listeners for.  Events are sent
\* only when a timer fires or the style becomes available; the other
\* operations are independent of the listeners.
\* The elements of the page that have a renderer: two on the page "two".
Elements == IF page = "two" THEN Renderers ELSE {"r1"}

ListenerSets == IF Pages[page].full THEN {{}, EventTypes} ELSE {{}}

MkW(c, gg) ==
    [exists |-> c.exists, trans |-> c.trans, kfs |-> c.kfs,
     suspended |-> c.suspended, waiters |-> c.waiters, live |-> c.live,
     g |-> gg, ev |-> {}]
UnW(W) ==
    [exists |-> W.exists, trans |-> W.trans, kfs |-> W.kfs,
     suspended |-> W.suspended, waiters |-> W.waiters, live |-> W.live]
EvOf(W, r) == {[e EXCEPT !.r = r] : e \in W.ev}

\* The composite of r, the waiter count and the observations after an
\* operation on r that ends with the composite W.
Commit(r, W) ==
    /\ comp' = [comp EXCEPT ![r] = UnW(W)]
    /\ g' = W.g
    /\ ev' = EvOf(W, r)

\* Observation: the operation of the controller that ran in the step, for
\* the operations that end with updateAnimationTimer or may do.
Called(what, r) == <<what, r>>
Other == Called("-", "-")

\* AnimationControllerPrivate::accessCompositeAnimation.
accessCompositeAnimation(r) ==
    MkW(IF comp[r].exists THEN comp[r] ELSE NewComposite, g)

Init ==
    /\ page \in PageNames
    /\ now = Epoch
    /\ comp = [r \in Renderers |-> NoComposite]
    /\ g = 0
    /\ rstyle = [r \in Renderers |-> NoStyle]
    /\ css = [r \in Renderers |-> [p \in Props |-> 0]]
    /\ animationTimer = FALSE
    /\ ev = {}
    /\ op = Other
    /\ alive = TRUE

\* Some one-shot timer of an animation is due.
TimerDue ==
    \E r \in Renderers : \E s \in Slots :
        /\ GetA(comp[r], s) # NoAnim
        /\ GetA(comp[r], s).timer.tag # "off"
        /\ GetA(comp[r], s).timer.at <= now

\* The clock advances.  Timers fire late only on the pages with the full
\* embedder.
Tick ==
    /\ now < Epoch + MaxTime
    /\ Pages[page].full \/ ~TimerDue
    /\ now' = now + 1
    /\ ev' = {}
    /\ op' = Other
    /\ UNCHANGED <<alive, page, comp, g, rstyle, css, animationTimer>>

\* The styles a recalculation can resolve for r: the declared style as it
\* was, or with one property value, the transition list or the animation list
\* changed.
StylesFrom(base) ==
    {base}
    \cup {[base EXCEPT !.vals[p] = v] : p \in Pages[page].vary, v \in Vals}
    \cup {[base EXCEPT !.trans = l] : l \in Pages[page].trans}
    \cup {[base EXCEPT !.anims = l] : l \in Pages[page].anims}
NextStyles(r) == StylesFrom(Style(css[r], rstyle[r].trans, rstyle[r].anims))

\* AnimationControllerPrivate::updateAnimationTimer: whether the shared timer
\* is active afterwards, for the map cm of composites.  First the scan that
\* does not skip the suspended composites.
updateAnimationTimerSuspended(cm) ==
    \E r \in Renderers : cm[r].exists /\ animating(cm[r])
updateAnimationTimer(cm) ==
    \E r \in Renderers :
        cm[r].exists /\ ~cm[r].suspended /\ animating(cm[r])

\* AnimationController::updateAnimations(renderer, newStyle); the renderer
\* takes the returned style.
Idle(oldStyle, newStyle) ==
    /\ oldStyle.null \/ (oldStyle.anims = <<>> /\ oldStyle.trans = <<>>)
    /\ newStyle.anims = <<>> /\ newStyle.trans = <<>>
Animated(r, newStyle, res) ==
    /\ \A s \in Slots : res.W.live[s] <= 1 + MaxLeaked
    /\ Commit(r, res.W)
    /\ rstyle' = [rstyle EXCEPT ![r] =
                     Style(res.R.vals, newStyle.trans, newStyle.anims)]
\* The process ended by the signal in the middle of an operation: nothing of
\* the engine or of the document is left and nothing more runs.  Of the
\* observations of the operation the fatal read is kept.
Killed(evs) ==
    /\ alive' = FALSE
    /\ comp' = [r \in Renderers |-> NoComposite]
    /\ g' = 0
    /\ rstyle' = [r \in Renderers |-> NoStyle]
    /\ css' = [r \in Renderers |-> [p \in Props |-> 0]]
    /\ animationTimer' = FALSE
    /\ ev' = {e \in evs : e.tag = "nullstyle"}
UpdateAnimations(r, newStyle) ==
    /\ alive
    /\ op' = Called("updateAnimations", r)
    /\ UNCHANGED <<page, now>>
    /\ IF Idle(rstyle[r], newStyle)
       THEN /\ rstyle' = [rstyle EXCEPT ![r] = newStyle]
            /\ css' = [css EXCEPT ![r] = newStyle.vals]
            /\ ev' = {}
            /\ UNCHANGED <<alive, comp, g, animationTimer>>
       ELSE \E walk \in AnimateWalks(accessCompositeAnimation(r), rstyle[r], newStyle) :
            \E res \in {animate(accessCompositeAnimation(r), rstyle[r], newStyle,
                                 now, {}, walk)} :
                IF Crashed(res.W) THEN Killed(EvOf(res.W, r))
                ELSE /\ Animated(r, newStyle, res)
                     /\ css' = [css EXCEPT ![r] = newStyle.vals]
                     /\ animationTimer' = updateAnimationTimer(comp')
                     /\ UNCHANGED alive

\* AnimationTimerCallback::timerFired -> animationTimerCallbackFired: the
\* one-shot timer of the animation in slot s of r is due.
InputOfTimer(tag) ==
    CASE tag = "start" -> "START_TIMER_FIRED"
      [] tag = "iter" -> "LOOP_TIMER_FIRED"
      [] tag = "end" -> "END_TIMER_FIRED"
LoopCounted(a, now_) ==
    IF a.timer.tag # "iter" THEN a.loops
    ELSE IF a.loops >= 0 /\ a.timer.at = now_ THEN a.loops + 1 ELSE -1
animationTimerCallbackFired(W, s, now_, lis) ==
    updateStateMachine(PutA(W, s, [GetA(W, s) EXCEPT !.timer = NoTimer,
                                                     !.loops = LoopCounted(GetA(W, s), now_)]),
                       s,
                       InputOfTimer(GetA(W, s).timer.tag), GetA(W, s).timer.el,
                       now_, lis)
FireAnimationTimer(r, s, lis) ==
    /\ alive
    /\ op' = Other
    /\ comp[r].exists
    /\ GetA(comp[r], s) # NoAnim
    /\ GetA(comp[r], s).timer.tag # "off"
    /\ GetA(comp[r], s).timer.at <= now
    /\ \E W \in {animationTimerCallbackFired(MkW(comp[r], g), s, now, lis)} :
           Commit(r, W)
    /\ UNCHANGED <<alive, page, now, rstyle, css, animationTimer>>

\* AnimationEventDispatcher::timerFired -> animationEventDispatcherFired: the
\* DOM event is delivered.
animationEventDispatcherFired(a) ==
    [a EXCEPT !.waitingForEndEvent = FALSE, !.evt = "none"]
FireEventDispatcher(r, s) ==
    /\ alive
    /\ op' = Other
    /\ comp[r].exists
    /\ GetA(comp[r], s) # NoAnim
    /\ GetA(comp[r], s).evt # "none"
    /\ comp' = [comp EXCEPT ![r] = PutA(@, s, animationEventDispatcherFired(GetA(@, s)))]
    /\ ev' = {}
    /\ UNCHANGED <<alive, page, now, g, rstyle, css, animationTimer>>

\* One controller-wide operation applied to every composite in turn; the
\* composites only share the controller's waiter count.  acc is the map of
\* composites, the waiter count and the observations so far; walk is the
\* order in which the composite's styleAvailable meets its transitions.
Applied(what, W, now_, lis, walk) ==
    IF ~W.exists THEN W
    ELSE CASE what = "styleAvailable" -> styleAvailable(W, now_, lis, walk)
           [] what = "suspend" -> suspendAnimations(W, now_, lis)
           [] what = "resume" -> resumeAnimations(W, now_, lis)
           [] what = "delete" -> deleteComposite(W)
Merged(acc, r, W) ==
    [comp |-> [acc.comp EXCEPT ![r] = UnW(W)], g |-> W.g,
     ev |-> acc.ev \cup EvOf(W, r)]
AppliedTo(what, acc, r, now_, lis, walk) ==
    Value({Merged(acc, r, W) : W \in {Applied(what, MkW(acc.comp[r], acc.g),
                                               now_, lis, walk)}})
\* The loop over m_compositeAnimations, a HashMap keyed by the address of the
\* renderer: order is the sequence in which the iterator meets the
\* composites, which the code does not fix (WalkOrders: every sequence that
\* holds each composite of the map once).  The styleAvailable of each
\* composite meets its own transitions in any order of the keys of its map
\* (the walks of suspendAnimations, resumeAnimations and the destructor leave
\* no trace of their order).  The result is the set of the outcomes: one for
\* each choice of these orders.
WalksOf(what, c) == IF what = "styleAvailable" THEN TransitionOrders(c.trans) ELSE {<<>>}
RECURSIVE OverComposites(_, _, _, _, _)
OverComposites(what, acc, order, now_, lis) ==
    IF order = <<>> THEN {acc}
    ELSE UNION {OverComposites(what, A, Tail(order), now_, lis) :
                   A \in {AppliedTo(what, acc, Head(order), now_, lis, walk) :
                             walk \in WalksOf(what, acc.comp[Head(order)])}}
InMap(compositeAnimations) == {r \in Renderers : compositeAnimations[r].exists}
WalkOrders(compositeAnimations) == Orders(InMap(compositeAnimations))
CommitAll(acc) ==
    /\ comp' = acc.comp
    /\ g' = acc.g
    /\ ev' = acc.ev

\* AnimationController::styleAvailable.
StyleAvailable(lis) ==
    /\ alive
    /\ op' = Other
    /\ IF g = 0 THEN CommitAll([comp |-> comp, g |-> g, ev |-> {}])
       ELSE \E order \in WalkOrders(comp) :
            \E acc \in OverComposites("styleAvailable",
                                       [comp |-> comp, g |-> g, ev |-> {}],
                                       order, now, lis) :
                CommitAll(acc)
    /\ UNCHANGED <<alive, page, now, rstyle, css, animationTimer>>

\* AnimationController::suspendAnimations(document) and resumeAnimations: all
\* renderers belong to the one document.
SuspendAnimations ==
    /\ Pages[page].full
    /\ alive
    /\ op' = Called("suspendAnimations", "-")
    /\ \E order \in WalkOrders(comp) :
       \E acc \in OverComposites("suspend", [comp |-> comp, g |-> g, ev |-> {}],
                                  order, now, {}) :
           CommitAll(acc)
    /\ animationTimer' = updateAnimationTimer(comp')
    /\ UNCHANGED <<alive, page, now, rstyle, css>>
ResumeAnimations ==
    /\ Pages[page].full
    /\ alive
    /\ op' = Called("resumeAnimations", "-")
    /\ \E order \in WalkOrders(comp) :
       \E acc \in OverComposites("resume", [comp |-> comp, g |-> g, ev |-> {}],
                                  order, now, {}) :
           CommitAll(acc)
    /\ animationTimer' = updateAnimationTimer(comp')
    /\ UNCHANGED <<alive, page, now, rstyle, css>>

\* AnimationController::cancelAnimations(renderer): the renderer goes away.
hasAnimations_ == \E r \in Renderers : comp[r].exists
CancelAnimations(r) ==
    /\ alive
    /\ op' = Other
    /\ ~rstyle[r].null \/ comp[r].exists
    /\ \E W \in {IF hasAnimations_ THEN clear(MkW(comp[r], g))
                   ELSE MkW(comp[r], g)} :
           Commit(r, W)
    /\ rstyle' = [rstyle EXCEPT ![r] = NoStyle]
    /\ css' = [css EXCEPT ![r] = [p \in Props |-> 0]]
    /\ UNCHANGED <<alive, page, now, animationTimer>>

\* AnimationController::setAnimationStartTime / setTransitionStartTime: the
\* host confirms a start at the current time.
SetAnimationStartTime(r) ==
    /\ Pages[page].full
    /\ alive
    /\ op' = Other
    /\ \E W \in {setAnimationStartTime(accessCompositeAnimation(r), now, now, {})} :
           Commit(r, W)
    /\ UNCHANGED <<alive, page, now, rstyle, css, animationTimer>>
SetTransitionStartTime(r, property) ==
    /\ Pages[page].full
    /\ alive
    /\ op' = Other
    /\ \E W \in {setTransitionStartTime(accessCompositeAnimation(r), property, now,
                                          now, {})} :
           Commit(r, W)
    /\ UNCHANGED <<alive, page, now, rstyle, css, animationTimer>>

\* AnimationController::~AnimationController: the frame goes away with its
\* renderers; ~AnimationControllerPrivate deletes every composite and the
\* shared timer.  What follows is the controller of the next frame, as
\* constructed.
DestroyController ==
    /\ alive
    /\ op' = Called("~AnimationController", "-")
    /\ \E order \in WalkOrders(comp) :
       \E acc \in OverComposites("delete", [comp |-> comp, g |-> g, ev |-> {}],
                                  order, now, {}) :
           /\ comp' = acc.comp
           /\ ev' = acc.ev
    /\ g' = 0
    /\ animationTimer' = FALSE
    /\ rstyle' = [r \in Renderers |-> NoStyle]
    /\ css' = [r \in Renderers |-> [p \in Props |-> 0]]
    /\ UNCHANGED <<alive, page, now>>

\* AnimationControllerPrivate::animationTimerFired.  Every composite that is
\* not suspended and is animating has its flags cleared and its element
\* marked changed; document()->updateRendering() then restyles the marked
\* elements, each through updateAnimations with the style the selector
\* resolves for it; updateAnimationTimer ends the callback.  acc is the map of
\* composites, the waiter count, the renderers' styles and the observations.
Changed(cm) ==
    {r \in Renderers : cm[r].exists /\ ~cm[r].suspended /\ animating(cm[r])}
Restyled(acc, r, newStyle, res) ==
    [comp |-> [acc.comp EXCEPT ![r] = UnW(res.W)], g |-> res.W.g,
     rstyle |-> [acc.rstyle EXCEPT ![r] =
                    Style(res.R.vals, newStyle.trans, newStyle.anims)],
     ev |-> acc.ev \cup EvOf(res.W, r)]
Restyle(acc, r, newStyle, walk) ==
    IF Idle(acc.rstyle[r], newStyle)
    THEN [acc EXCEPT !.rstyle[r] = newStyle]
    ELSE Value({Restyled(acc, r, newStyle, res) :
                   res \in {animate(MkW(acc.comp[r], acc.g), acc.rstyle[r], newStyle,
                                    now, {}, walk)}})
\* The restyle of r in each of the orders in which its animate() may meet
\* the transitions; updateRendering and animationTimerFired give the set of
\* the outcomes, one for each choice of these orders.
Resolved(r, styles) == Style(css[r], styles[r].trans, styles[r].anims)
Restyles(acc, r, newStyle) ==
    {Restyle(acc, r, newStyle, walk) :
        walk \in IF Idle(acc.rstyle[r], newStyle) THEN {<<>>}
                 ELSE AnimateWalks(MkW(acc.comp[r], acc.g), acc.rstyle[r], newStyle)}
RECURSIVE updateRendering(_, _)
updateRendering(acc, rs) ==
    IF rs = {} \/ Crashed(acc) THEN {acc}
    ELSE UNION {updateRendering(A, rs \ {CHOOSE x \in rs : TRUE}) :
                   A \in Restyles(acc, CHOOSE x \in rs : TRUE,
                                  Resolved(CHOOSE x \in rs : TRUE, acc.rstyle))}
animationTimerFired ==
    updateRendering(
        [comp |-> [r \in Renderers |->
                      IF r \in Changed(comp) THEN setAnimating(comp[r], FALSE)
                      ELSE comp[r]],
         g |-> g, rstyle |-> rstyle, ev |-> {}],
        Changed(comp))
AnimationTimerFired ==
    /\ alive
    /\ animationTimer
    /\ op' = Called("animationTimerFired", "-")
    /\ UNCHANGED <<page, now>>
    /\ \E acc \in animationTimerFired :
           IF Crashed(acc) THEN Killed(acc.ev)
           ELSE /\ \A r \in Renderers : \A s \in Slots :
                       acc.comp[r].live[s] <= 1 + MaxLeaked
                /\ comp' = acc.comp
                /\ g' = acc.g
                /\ rstyle' = acc.rstyle
                /\ ev' = acc.ev
                /\ animationTimer' = updateAnimationTimer(comp')
                /\ UNCHANGED <<alive, css>>

Recalc ==
    \E r \in Elements : \E newStyle \in NextStyles(r) :
        UpdateAnimations(r, newStyle)
TimerFires ==
    \E r \in Renderers : \E s \in Slots : \E lis \in ListenerSets :
        FireAnimationTimer(r, s, lis)
EventFires == \E r \in Renderers : \E s \in Slots : FireEventDispatcher(r, s)
StyleReady == \E lis \in ListenerSets : StyleAvailable(lis)
Suspend == SuspendAnimations
Resume == ResumeAnimations
Cancel == \E r \in Elements : CancelAnimations(r)
StartTimeAnimation == \E r \in Elements : SetAnimationStartTime(r)
StartTimeTransition ==
    \E r \in Elements : \E p \in Props : SetTransitionStartTime(r, p)
AnimationTimer == AnimationTimerFired

Next ==
    \/ Tick
    \/ Recalc
    \/ TimerFires
    \/ EventFires
    \/ StyleReady
    \/ Suspend
    \/ Resume
    \/ Cancel
    \/ StartTimeAnimation
    \/ StartTimeTransition
    \/ AnimationTimer
    \/ DestroyController

Spec == Init /\ [][Next]_vars

\* The engine with its run loop firing the shared repeating timer: while the
\* timer is active its callback runs again and again.  The pages followed are
\* those with the full embedder.
TimerInit == Init /\ Pages[page].full
TimerSpec == TimerInit /\ [][Next]_vars /\ WF_vars(AnimationTimer)

\* ---------------------------------------------- the engine under a fair host
\* The time the animation a needs from now_ on to reach DONE when every timer
\* fires as soon as it is due and the style becomes available at once.
TotalDuration(a) == duration(a.decl) * iterationCount(a.decl)
Need(a, now_) ==
    IF iterationCount(a.decl) <= 0 \/ paused(a) THEN 0
    ELSE CASE a.st = "START_WAIT_TIMER" ->
                (IF a.timer.at > now_ THEN a.timer.at - now_ ELSE 0) + TotalDuration(a)
           [] a.st \in {"START_WAIT_STYLE_AVAILABLE", "START_WAIT_RESPONSE"} ->
                TotalDuration(a)
           [] a.st \in {"LOOPING", "ENDING"} ->
                IF a.startTime + TotalDuration(a) > now_
                THEN a.startTime + TotalDuration(a) - now_ ELSE 0
           [] OTHER -> 0

\* The clock is followed up to Epoch + MaxTime: the runs followed are those
\* in which every animation that is under way can end by then.
Horizon ==
    \A r \in Renderers : \A s \in Slots :
        GetA(comp[r], s) # NoAnim =>
            now + Need(GetA(comp[r], s), now) <= Epoch + MaxTime

\* The timer of slot s of r fires, whatever the listeners.
TimerOf(r, s) == \E lis \in ListenerSets : FireAnimationTimer(r, s, lis)

FairTick == Tick /\ Horizon'
FairRecalc == Recalc /\ Horizon'
FairTimerFires == TimerFires /\ Horizon'
FairEventFires == EventFires /\ Horizon'
FairStyleReady == StyleReady /\ Horizon'
FairSuspend == Suspend /\ Horizon'
FairResume == Resume /\ Horizon'
FairCancel == Cancel /\ Horizon'
FairStartTimeAnimation == StartTimeAnimation /\ Horizon'
FairStartTimeTransition == StartTimeTransition /\ Horizon'
FairAnimationTimer == AnimationTimer /\ Horizon'
FairNext ==
    \/ FairTick
    \/ FairRecalc
    \/ FairTimerFires
    \/ FairEventFires
    \/ FairStyleReady
    \/ FairSuspend
    \/ FairResume
    \/ FairCancel
    \/ FairStartTimeAnimation
    \/ FairStartTimeTransition
    \/ FairAnimationTimer

\* Time goes on to the end of the clock (no run does infinitely many steps
\* at one instant), every armed timer fires once it is due (the run loop),
\* and the host calls styleAvailable after the style recalculation it was
\* asked for.  The callback of the shared timer may run at any time; the
\* frame is not torn down.  The pages followed are those with at most one
\* transition per element (the page "all" runs three at once).
FairInit == Init /\ page # "all"
FairSpec ==
    /\ FairInit
    /\ [][FairNext]_vars
    /\ <>[](now = Epoch + MaxTime)
    /\ \A r \in Renderers : \A s \in Slots : WF_vars(TimerOf(r, s) /\ Horizon')
    /\ WF_vars(FairStyleReady)

\* The fair host whose event-delivery timers fire as well: every armed
\* AnimationEventDispatcher fires.
EventOf(r, s) == FireEventDispatcher(r, s) /\ Horizon'
EventSpec ==
    /\ FairSpec
    /\ \A r \in Renderers : \A s \in Slots : WF_vars(EventOf(r, s))

\* ------------------------------------------------ the calculations alone
\* progress() and the blend functions applied to inputs drawn from bounded
\* sets: the input is put in ev, one step applies the function and leaves
\* the input with the result in ev.

\* Largest declared duration and iteration count of the inputs of progress.
MaxDur == 2
MaxCount == 3
\* Largest elapsed time: one more than the longest total duration.
MaxElapsed == MaxDur * MaxCount + 1

\* The declarations: every duration, finite and infinite counts, both
\* directions (an infinite count with duration 0 has no life, see fmod).
ProgressDecls ==
    {Decl("a", dur, 0, count, alt, TRUE, TRUE, "ok1") :
        dur \in 0..MaxDur, count \in {-1} \cup 1..MaxCount, alt \in BOOLEAN}
    \ {Decl("a", 0, 0, -1, alt, TRUE, TRUE, "ok1") : alt \in BOOLEAN}
\* The animation of declaration d in the state st: before the start as
\* constructed; started, in the state its start time confirmed at Epoch left
\* it in (its timer may fire late); done.
Confirmed(d) ==
    InputStartTimeSet([NewAnimation("K", "a", d, 0) EXCEPT !.st = "START_WAIT_RESPONSE"],
                      Epoch, Epoch)
AnimationIn(d, st) ==
    IF st \in {"NEW", "START_WAIT_TIMER", "START_WAIT_STYLE_AVAILABLE",
               "START_WAIT_RESPONSE"}
    THEN [NewAnimation("K", "a", d, 0) EXCEPT !.st = st]
    ELSE IF st = "DONE" THEN [Confirmed(d) EXCEPT !.st = "DONE"]
    ELSE Confirmed(d)
ProgressStates ==
    {"NEW", "START_WAIT_TIMER", "START_WAIT_STYLE_AVAILABLE", "START_WAIT_RESPONSE",
     "started", "DONE"}
ProgressInputs ==
    {[tag |-> "progress?", a |-> AnimationIn(d, st), e1 |-> e1, e2 |-> e2] :
        d \in ProgressDecls, st \in ProgressStates,
        e1 \in 0..MaxElapsed, e2 \in 0..MaxElapsed}

\* Color(int r, int g, int b, int a): the four channels (values within
\* 0..255 blend to values within 0..255).
Color(red, green, blue, alpha) == [r |-> red, g |-> green, b |-> blue, a |-> alpha]
\* blendFunc(double, double, double): the fraction <<num, den>>.
blendFuncDouble(from, to, pr) == <<from * pr[2] + (to - from) * pr[1], pr[2]>>
\* blendFunc(const Color&, const Color&, double).
blendFuncColor(from, to, pr) ==
    Color(blendFunc(from.r, to.r, pr), blendFunc(from.g, to.g, pr),
          blendFunc(from.b, to.b, pr), blendFunc(from.a, to.a, pr))
\* blendFunc(const IntSize&, const IntSize&, double).
IntSize(w, h) == [width |-> w, height |-> h]
blendFuncIntSize(from, to, pr) ==
    IntSize(blendFunc(from.width, to.width, pr), blendFunc(from.height, to.height, pr))
\* blendFunc(const ShadowData*, const ShadowData*, double) and
\* PropertyWrapperShadow::blend, which puts the default shadow in the place of
\* a null one.
ShadowData(x, y, blur, color) == [x |-> x, y |-> y, blur |-> blur, color |-> color]
NullShadow == [x |-> "null"]
transparent == Color(0, 0, 0, 0)
defaultShadowData == ShadowData(0, 0, 0, transparent)
blendFuncShadowData(from, to, pr) ==
    ShadowData(blendFunc(from.x, to.x, pr), blendFunc(from.y, to.y, pr),
               blendFunc(from.blur, to.blur, pr),
               blendFuncColor(from.color, to.color, pr))
PropertyWrapperShadowBlend(a, b, pr) ==
    blendFuncShadowData(IF a = NullShadow THEN defaultShadowData ELSE a,
                        IF b = NullShadow THEN defaultShadowData ELSE b, pr)
\* blendFunc(EVisibility, EVisibility, double).
blendFuncEVisibility(from, to, pr) ==
    LET fromVal == IF from = "VISIBLE" THEN 1 ELSE 0
        toVal == IF to = "VISIBLE" THEN 1 ELSE 0
    IN  IF fromVal = toVal THEN to
        ELSE IF blendFuncDouble(fromVal, toVal, pr)[1] > 0 THEN "VISIBLE"
        ELSE IF to # "VISIBLE" THEN to ELSE from

\* The values blended: of each type every pair is an input, at the progress
\* values 0, 1/2 and 1.
Ints == -2..2
Colors ==
    {Color(red, green, blue, alpha) :
        red \in {0, 255}, green \in {0, 128}, blue \in {255}, alpha \in {0, 255}}
IntSizes == {IntSize(w, h) : w \in {0, 3}, h \in {0, 1, 2}}
Shadows ==
    {NullShadow}
    \cup {ShadowData(x, y, blur, c) :
             x \in {0, 2}, y \in {-1}, blur \in {0, 3},
             c \in {transparent, Color(0, 0, 0, 255)}}
Visibilities == {"VISIBLE", "HIDDEN", "COLLAPSE"}
ValuesOf(type) ==
    CASE type = "int" -> Ints
      [] type = "Color" -> Colors
      [] type = "IntSize" -> IntSizes
      [] type = "ShadowData" -> Shadows
      [] type = "EVisibility" -> Visibilities
BlendTypes == {"int", "Color", "IntSize", "ShadowData", "EVisibility"}
Progresses == {<<0, 1>>, <<1, 2>>, <<1, 1>>}
\* A value in ev is kept under the name of its type.
Boxed(type, v) == [t \in {type} |-> v]
From(o) == o.from[o.type]
To(o) == o.to[o.type]
Out(o) == o.out[o.type]
BlendInputs ==
    UNION {{[tag |-> "blend?", type |-> type, from |-> Boxed(type, from),
             to |-> Boxed(type, to), pr |-> pr] :
               from \in ValuesOf(type), to \in ValuesOf(type), pr \in Progresses}
           : type \in BlendTypes}
\* The blend of the wrapper registered for the type.
Blend(type, from, to, pr) ==
    CASE type = "int" -> blendFunc(from, to, pr)
      [] type = "Color" -> blendFuncColor(from, to, pr)
      [] type = "IntSize" -> blendFuncIntSize(from, to, pr)
      [] type = "ShadowData" -> PropertyWrapperShadowBlend(from, to, pr)
      [] type = "EVisibility" -> blendFuncEVisibility(from, to, pr)

CalcInit ==
    /\ page = "transition"
    /\ now = Epoch
    /\ comp = [r \in Renderers |-> NoComposite]
    /\ g = 0
    /\ rstyle = [r \in Renderers |-> NoStyle]
    /\ css = [r \in Renderers |-> [p \in Props |-> 0]]
    /\ animationTimer = FALSE
    /\ ev \in {{i} : i \in ProgressInputs \cup BlendInputs}
    /\ op = Other
    /\ alive = TRUE
\* progress(1, 0) of the animation after the elapsed times e1 and e2.
ApplyProgress ==
    /\ \E i \in ev :
           /\ i.tag = "progress?"
           /\ ev' = {[tag |-> "progress", a |-> i.a, e1 |-> i.e1, e2 |-> i.e2,
                      p1 |-> progress(i.a, KeyDen, 0, Epoch + i.e1),
                      p2 |-> progress(i.a, KeyDen, 0, Epoch + i.e2)]}
    /\ op' = Called("progress", "-")
    /\ UNCHANGED <<alive, page, now, comp, g, rstyle, css, animationTimer>>
ApplyBlend ==
    /\ \E i \in ev :
           /\ i.tag = "blend?"
           /\ ev' = {[tag |-> "blend", type |-> i.type, from |-> i.from, to |-> i.to,
                      pr |-> i.pr,
                      out |-> Boxed(i.type, Blend(i.type, From(i), To(i), i.pr))]}
    /\ op' = Called("blend", "-")
    /\ UNCHANGED <<alive, page, now, comp, g, rstyle, css, animationTimer>>
CalcNext ==
    \/ ApplyProgress
    \/ ApplyBlend
CalcSpec == CalcInit /\ [][CalcNext]_vars

\* ------------------------------------------------ the state machine alone
\* The inputs of updateStateMachine.
AllInputs ==
    {"MAKE_NEW", "START_ANIMATION", "RESTART_ANIMATION", "START_TIMER_FIRED", "STYLE_AVAILABLE",
     "START_TIME_SET", "LOOP_TIMER_FIRED", "END_TIMER_FIRED", "PAUSE_OVERRIDE",
     "RESUME_OVERRIDE", "PLAY_STATE_RUNNING", "PLAY_STATE_PAUSED", "END_ANIMATION"}

\* AnimationBase::updateStateMachine is a public member: here one animation,
\* as constructed in the map of its composite, is given any input at any
\* time.  The animations are a transition and keyframe animations with and
\* without a delay, with one, two and endlessly many iterations.
MachineAnimations ==
    {NewAnimation("T", "letter-spacing", tSpacing, 0)}
    \cup {NewAnimation("K", d.key, d, 0) : d \in {aRun, aLoop, bForever}}
SlotOf(a) == <<a.kind, a.key>>
AloneInit(animations) ==
    /\ page = "keyframes"
    /\ now = Epoch
    /\ \E a \in animations :
           comp = [r \in Renderers |->
                      IF r = "r1" THEN UnW(PutA(Construct(MkW(NewComposite, 0), SlotOf(a)),
                                                SlotOf(a), a))
                      ELSE NoComposite]
    /\ g = 0
    /\ rstyle = [r \in Renderers |-> NoStyle]
    /\ css = [r \in Renderers |-> [p \in Props |-> 0]]
    /\ animationTimer = FALSE
    /\ ev = {}
    /\ op = Other
    /\ alive = TRUE
MachineInit == AloneInit(MachineAnimations)
\* updateStateMachine(input, param) on the animation of slot s; the start
\* time confirmed is the current time.
MachineInput(s, input, lis) ==
    /\ GetA(comp["r1"], s) # NoAnim
    /\ alive
    /\ op' = Called("updateStateMachine", "r1")
    /\ \E W \in {updateStateMachine(MkW(comp["r1"], g), s, input,
                                      IF input = "START_TIME_SET" THEN now ELSE 0,
                                      now, lis)} :
           Commit("r1", W)
    /\ UNCHANGED <<alive, page, now, rstyle, css, animationTimer>>
MachineInputs ==
    \E s \in Slots : \E input \in AllInputs : \E lis \in ListenerSets :
        MachineInput(s, input, lis)
MachineNext ==
    \/ Tick
    \/ MachineInputs
MachineSpec == MachineInit /\ [][MachineNext]_vars

\* ------------------------------------------------------- one animation's run
\* One animation, as constructed in the map of its composite, is stepped by
\* the animate() calls of the restyles, which come at any instant and start
\* it, and driven by its timers, by the style-available round and by the
\* suspension and resumption of the document, over a clock that lets runs of
\* several iterations finish.  The timers may fire late.
MaxRun == 5
aThrice == Decl("a", 1, 0, 3, FALSE, TRUE, TRUE, "ok1")
aTwiceSlow == Decl("a", 2, 0, 2, TRUE, TRUE, TRUE, "ok1")
RunAnimations ==
    {NewAnimation("T", "letter-spacing", tSpacing, 0)}
    \cup {NewAnimation("K", d.key, d, 0) : d \in {aRun, aLoop, aThrice, aTwiceSlow, bForever}}
RunInit == AloneInit(RunAnimations)
RunTick ==
    /\ now < Epoch + MaxRun
    /\ now' = now + 1
    /\ ev' = {}
    /\ op' = Other
    /\ UNCHANGED <<alive, page, comp, g, rstyle, css, animationTimer>>
\* An animate() call of a restyle, in whatever state it finds the animation:
\* the whole of KeyframeAnimation::animate or ImplicitAnimation::animate (on
\* a new animation the start request or the reset of the transition; on a
\* started one the blend at the current time, which force-ends a keyframe
\* animation that has no bracketing pair; on a finished one the early
\* return), with a current style of zeros and a target style with
\* letter-spacing 1.
RunCurrent == Style([p \in Props |-> 0], <<>>, <<>>)
RunTarget == Style([p \in Props |-> IF p = "letter-spacing" THEN 1 ELSE 0], <<>>, <<>>)
RunAnimate(x, s) ==
    IF s[1] = "K" THEN KeyframeAnimate(x, s[2], now, {})
    ELSE ImplicitAnimate(x, s[2], RunCurrent, RunTarget, now, {})
RunRestyle ==
    \E s \in Slots :
        /\ GetA(comp["r1"], s) # NoAnim
        /\ alive
        /\ op' = Called("animate", "r1")
        /\ \E res \in {RunAnimate([W |-> MkW(comp["r1"], g), R |-> NullResult(RunTarget)],
                                   s)} :
               Commit("r1", res.W)
        /\ UNCHANGED <<alive, page, now, rstyle, css, animationTimer>>
RunNext ==
    \/ RunTick
    \/ RunRestyle
    \/ TimerFires
    \/ EventFires
    \/ StyleReady
    \/ Suspend
    \/ Resume
RunSpec == RunInit /\ [][RunNext]_vars

\* ------------------------------------------------------------------ claims
\* The animation in slot s of renderer r, if there is one.
Present(r, s) == GetA(comp[r], s) # NoAnim
Anim(r, s) == GetA(comp[r], s)
Followed(r, s) == Present(r, s) /\ Anim(r, s).hist # <<"X">>
IsPrefix(h, full) == Len(h) <= Len(full) /\ \A i \in 1..Len(h) : h[i] = full[i]
LoopingRun ==
    <<"NEW", "START_WAIT_TIMER", "START_WAIT_STYLE_AVAILABLE", "START_WAIT_RESPONSE",
      "LOOPING", "ENDING", "DONE">>
SingleRun ==
    <<"NEW", "START_WAIT_TIMER", "START_WAIT_STYLE_AVAILABLE", "START_WAIT_RESPONSE",
      "ENDING", "DONE">>
ArmedTimer(st) ==
    CASE st = "START_WAIT_TIMER" -> {"start"}
      [] st = "LOOPING" -> {"iter"}
      [] st = "ENDING" -> {"end"}
      [] OTHER -> {"off", "start", "iter", "end"}

\* C1: an animation that was started and never paused, restarted or
\* force-ended has visited NEW, START_WAIT_TIMER, START_WAIT_STYLE_AVAILABLE,
\* START_WAIT_RESPONSE, LOOPING (possibly not at all), ENDING, DONE in this
\* order with none skipped, and while it waits for a timer (to start, to
\* loop, to end) that timer is armed, whatever the delay and the duration.
C1_StatesInOrder ==
    \A r \in Renderers : \A s \in Slots :
        Followed(r, s) =>
            /\ Anim(r, s).hist[Len(Anim(r, s).hist)] = Anim(r, s).st
            /\ IsPrefix(Anim(r, s).hist, LoopingRun)
               \/ IsPrefix(Anim(r, s).hist, SingleRun)
            /\ Anim(r, s).timer.tag \in ArmedTimer(Anim(r, s).st)
\* An animation with no delay went through every state, LOOPING included.
C1_Witness ==
    \E r \in Renderers : \E s \in Slots :
        /\ Present(r, s)
        /\ Anim(r, s).hist = LoopingRun
        /\ delay(Anim(r, s).decl) = 0

\* The time the timer primed at time t fires for the animation a.
NextBoundary(a, t) ==
    IF duration(a.decl) > 0
       /\ (iterationCount(a.decl) <= 0
           \/ t - a.startTime < duration(a.decl) * iterationCount(a.decl))
    THEN a.startTime + duration(a.decl) * (((t - a.startTime) \div duration(a.decl)) + 1)
    ELSE t
Resumes == {e \in ev : e.tag = "resumed"}

\* C3: after an operation that resumed at time r = now an animation paused
\* while running (start time s = e.x, paused at p = e.y), the start time is
\* s + (r - p), the state is LOOPING or ENDING with the timer primed from the
\* shifted start time, and the progress at every later time T is the
\* progress of the run that was not paused at T - (r - p).
C3_ResumeCompensates ==
    \A e \in Resumes :
        /\ Present(e.r, e.slot)
        /\ Anim(e.r, e.slot).startTime = e.x + (now - e.y)
        /\ Anim(e.r, e.slot).pauseTime = -1
        /\ Anim(e.r, e.slot).st \in {"LOOPING", "ENDING"}
        /\ Anim(e.r, e.slot).timer.tag \in ArmedTimer(Anim(e.r, e.slot).st)
        /\ Anim(e.r, e.slot).timer.at = NextBoundary(Anim(e.r, e.slot), now)
        /\ \A T \in now..(Epoch + MaxTime + 2) :
               progress(Anim(e.r, e.slot), KeyDen, 0, T)
                   = progress([Anim(e.r, e.slot) EXCEPT !.startTime = e.x],
                              KeyDen, 0, T - (now - e.y))
\* A resume after a pause of non-zero length of an animation that had run.
C3_Witness ==
    \E e \in Resumes : now > e.y /\ e.y > e.x /\ e.x > 0

\* C4: pauseTime >= 0 exactly in the three paused states, and never in DONE.
C4_PausedIffPauseTime ==
    \A r \in Renderers : \A s \in Slots :
        Present(r, s) =>
            /\ paused(Anim(r, s)) <=> Anim(r, s).st \in PausedStates
            /\ postactive(Anim(r, s)) => ~paused(Anim(r, s))

\* The children of the composite of r that wait for the style.
Waiting(r) == {s \in Slots : Present(r, s) /\ waitingForStyleAvailable(Anim(r, s))}
RECURSIVE SumOfWaiters(_)
SumOfWaiters(rs) ==
    IF rs = {} THEN 0
    ELSE comp[CHOOSE r \in rs : TRUE].waiters
         + SumOfWaiters(rs \ {CHOOSE r \in rs : TRUE})

\* C5: every composite's waiter count is the number of its children in
\* START_WAIT_STYLE_AVAILABLE, the controller's count is the sum of the
\* composites' counts, and no operation decremented a count that was zero.
C5_WaitersCounted ==
    /\ \A r \in Renderers : comp[r].waiters = Cardinality(Waiting(r))
    /\ g = SumOfWaiters(Renderers)
    /\ \A e \in ev : e.tag # "underflow"
\* An operation destroyed a child while another one goes on waiting.
C5_Witness ==
    /\ g = 1
    /\ \E e \in ev : e.tag = "destroyed"
    /\ \E r \in Renderers : Cardinality(Waiting(r)) = 1

\* C6: for each composite and each property at most one ImplicitAnimation
\* is alive.
C6_OneTransitionPerProperty ==
    \A r \in Renderers : \A p \in Props : comp[r].live[<<"T", p>>] <= 1
\* updateTransitions made a transition for a property that had one.
C6_Witness ==
    \E e \in ev : /\ e.tag = "created"
                  /\ e.y = 1
                  /\ comp[e.r].live[e.slot] = 1

\* C7: for each composite and each name at most one KeyframeAnimation is
\* alive, whatever the declared list.
C7_OneKeyframeAnimationPerName ==
    \A r \in Renderers : \A n \in Names : comp[r].live[<<"K", n>>] <= 1

\* The declarations that must not come to life.
DegenerateTransition(d) == duration(d) = 0 /\ delay(d) <= 0
DegenerateAnimation(d) ==
    \/ ~isValidAnimation(d)
    \/ duration(d) = 0 /\ delay(d) = 0
    \/ iterationCount(d) = 0
    \/ keyframeList(d).frames = <<>>
Degenerate(r, s) ==
    IF s[1] = "T" THEN DegenerateTransition(Anim(r, s).decl)
    ELSE DegenerateAnimation(Anim(r, s).decl)
AllDegenerate(decls) ==
    decls # <<>> /\ \A i \in 1..Len(decls) : DegenerateAnimation(decls[i])

\* C8: no animation in the maps comes from a degenerate declaration; a pass
\* over a transition list of empty transitions creates nothing, a pass over
\* an animation list of degenerate declarations leaves the name map empty,
\* and isAnimatingProperty reports a property only for an animation of a
\* declaration that is not degenerate.
C8_NoDegenerateAnimation ==
    \A r \in Renderers :
        /\ \A s \in Slots : Present(r, s) => ~Degenerate(r, s)
        /\ (\A i \in 1..Len(rstyle[r].trans) : DegenerateTransition(rstyle[r].trans[i]))
               => \A e \in ev : e.r = r => e.tag # "created"
        /\ AllDegenerate(rstyle[r].anims) => \A n \in Names : comp[r].kfs[n] = NoAnim
        /\ \A p \in Props : \A b \in BOOLEAN :
               isAnimatingProperty(comp[r], p, b) =>
                   \E s \in Slots : /\ Present(r, s)
                                    /\ ~Degenerate(r, s)
                                    /\ affectsProperty(Anim(r, s), p)
\* A pass over a list of degenerate declarations only, which replaced a list
\* that had a running animation.
C8_Witness ==
    \E r \in Renderers :
        /\ comp[r].exists
        /\ AllDegenerate(rstyle[r].anims)
        /\ \E e \in ev : e.tag = "destroyed" /\ e.slot[1] = "K"

\* C9: a pass of updateTransitions creates no ImplicitAnimation for a
\* property whose current and target values are equal, whether or not the
\* property had a transition before the pass.
C9_NoTransitionBetweenEqualValues ==
    \A e \in ev : e.tag = "created" => e.x = 0

\* The keyframe animations of r that affect p, have started (received
\* style-available) and are not inactive yet.
Overriding(r, p) ==
    {n \in Names : /\ comp[r].kfs[n] # NoAnim
                   /\ p \in kfProps(comp[r].kfs[n].decl)
                   /\ comp[r].kfs[n].st \notin {"NEW", "START_WAIT_TIMER",
                                                "START_WAIT_STYLE_AVAILABLE", "DONE"}}

\* C10: the transition of a property is overridden exactly when some keyframe
\* animation of the composite that affects the property has started and has
\* not become inactive.
C10_OverriddenIffKeyframeActive ==
    \A r \in Renderers : \A p \in Props :
        comp[r].trans[p] # NoAnim =>
            (comp[r].trans[p].overridden <=> Overriding(r, p) # {})

\* The animation in slot s of r has a finite iteration count, has been
\* started and is not paused.
UnderWay(r, s) ==
    /\ Present(r, s)
    /\ iterationCount(Anim(r, s).decl) > 0
    /\ ~isnew(Anim(r, s))
    /\ ~postactive(Anim(r, s))
    /\ ~paused(Anim(r, s))
\* It is done or paused, or the last operation destroyed the animation of
\* the slot.
Settled(r, s) ==
    \/ ~Present(r, s)
    \/ postactive(Anim(r, s))
    \/ paused(Anim(r, s))
    \/ \E e \in ev : e.tag = "destroyed" /\ e.r = r /\ e.slot = s

\* C2: under the fair host every animation with a finite positive iteration
\* count that has been started reaches DONE, unless it is paused or
\* destroyed first (one that is restarted is under way again and reaches
\* DONE as well); in particular it does not stay in START_WAIT_RESPONSE.
\* An animation under way stays under way until it is settled, and no slot
\* holds an animation that is under way and unsettled from some time on.
C2_StartedReachesDone ==
    /\ [][\A r \in Renderers : \A s \in Slots :
              (UnderWay(r, s) /\ ~Settled(r, s))
                  => (UnderWay(r, s)' \/ Settled(r, s)')]_vars
    /\ \A r \in Renderers : \A s \in Slots :
           []<>(~UnderWay(r, s) \/ Settled(r, s))
\* An animation that was never paused, restarted or force-ended is done.
C2_Witness ==
    \E r \in Renderers : \E s \in Slots :
        /\ Followed(r, s)
        /\ postactive(Anim(r, s))
        /\ Anim(r, s).hist \in {LoopingRun, SingleRun}

\* The writes of the animate pass that just returned for r, and the order of
\* two names in the animation list of the style that pass was given.
Writes(r) == {e \in ev : e.tag = "wrote" /\ e.r = r}
DeclaredBefore(r, m, n) ==
    \E i \in 1..Len(rstyle[r].anims) : \E j \in i..Len(rstyle[r].anims) :
        /\ rstyle[r].anims[i].key = m
        /\ rstyle[r].anims[j].key = n
LastWriteOf(r, e) ==
    \A f \in Writes(r) : f.slot[3] = e.slot[3] => f.x <= e.x

\* C11: within one CompositeAnimation::animate pass every transition writes
\* before every keyframe animation, the keyframe animations write in the order
\* of their declarations in the target style, and the returned style holds for
\* each property the value of the last writer: the keyframe animation's over a
\* transition's, the later-declared keyframe animation's over an earlier one's.
C11_KeyframeValueWins ==
    \A r \in Renderers : \A e \in Writes(r) :
        /\ \A f \in Writes(r) :
               /\ (e.slot[1] = "T" /\ f.slot[1] = "K") => e.x < f.x
               /\ (e.slot[1] = "K" /\ f.slot[1] = "K" /\ e.x < f.x)
                      => DeclaredBefore(r, e.slot[2], f.slot[2])
        /\ LastWriteOf(r, e) => rstyle[r].vals[e.slot[3]] = e.y
        /\ (e.slot[1] = "T" /\ LastWriteOf(r, e))
               => \A f \in Writes(r) : f.slot[3] = e.slot[3] => f.slot[1] = "T"
\* A transition and two keyframe animations wrote one property in one pass,
\* the last-declared animation with a value of its own.
C11_Witness ==
    \E r \in Renderers : \E t, a, b \in Writes(r) :
        /\ t.slot[1] = "T" /\ a.slot[1] = "K" /\ b.slot[1] = "K"
        /\ a.slot[3] = t.slot[3] /\ b.slot[3] = t.slot[3]
        /\ a.x < b.x
        /\ b.y # a.y /\ b.y # t.y
        /\ rstyle[r].vals[b.slot[3]] = b.y

\* C12: an event requested with a matching listener stays pending until the
\* event-delivery timer fires: an animation in the maps that waits for its
\* event (m_waitingForEndEvent, set only by the request and cleared only by
\* the delivery) has the delivery timer armed with the event.
C12_RequestedEventStaysPending ==
    \A r \in Renderers : \A s \in Slots :
        (Present(r, s) /\ Anim(r, s).waitingForEndEvent) => Anim(r, s).evt # "none"

\* The value AnimationControllerPrivate::clear returned for r in the step.
Cleared(r, e) == e.tag = "clear" /\ e.r = r

\* C13: clear(target) returns true exactly when the target had a composite
\* that was not suspended (false without a composite and for a suspended
\* one); afterwards the target has no map entry and no child, and
\* isAnimatingProperty is false for every property.
C13_ClearRemovesComposite ==
    [][\A r \in Renderers : \A e \in ev' :
          Cleared(r, e) =>
              /\ (e.x = 1) <=> (comp[r].exists /\ ~comp[r].suspended)
              /\ ~comp'[r].exists
              /\ \A s \in Slots : GetA(comp'[r], s) = NoAnim
              /\ \A p \in Props : \A b \in BOOLEAN :
                     ~isAnimatingPropertyOnRenderer(comp'[r], p, b)]_vars
\* clear returned false for a suspended composite whose children it deleted.
C13_Witness ==
    \E r \in Renderers : \E e, d \in ev :
        /\ Cleared(r, e) /\ e.x = 0 /\ e.y = 1
        /\ d.tag = "destroyed" /\ d.r = r
\* clear returned false for a target without a composite while another
\* target had one, and true for a composite with children.
C13_ReachedWithoutComposite ==
    \E r \in Renderers : \E e \in ev : Cleared(r, e) /\ e.x = 0 /\ e.y = 0
C13_ReachedTrue ==
    \E r \in Renderers : \E e, d \in ev :
        /\ Cleared(r, e) /\ e.x = 1
        /\ d.tag = "destroyed" /\ d.r = r

\* Some composite that is not suspended reports animating().
SomeAnimating(cm) ==
    \E r \in Renderers :
        /\ cm[r].exists /\ ~cm[r].suspended
        /\ \E s \in Slots :
               /\ GetA(cm[r], s) # NoAnim
               /\ GetA(cm[r], s).animating
               /\ IF s[1] = "T" THEN running(GetA(cm[r], s))
                  ELSE ~paused(GetA(cm[r], s)) /\ active(GetA(cm[r], s))
\* The step was updateAnimations on a path that reaches the composite,
\* suspendAnimations, resumeAnimations or the callback of the shared timer.
UpdatesTimer ==
    \/ op'[1] \in {"suspendAnimations", "resumeAnimations", "animationTimerFired"}
    \/ /\ op'[1] = "updateAnimations"
       /\ ~Idle(rstyle[op'[2]], rstyle'[op'[2]])

\* C14: right after updateAnimations (when it reaches the composite),
\* suspendAnimations, resumeAnimations or the timer callback the shared timer
\* is active iff some non-suspended composite reports animating(); and a
\* timer left active with no composite animating (as cancelAnimations leaves
\* it) is stopped by the timer callback unless something animates again.
C14_TimerActiveIffAnimating ==
    /\ [][UpdatesTimer => (animationTimer' <=> SomeAnimating(comp'))]_vars
    /\ (animationTimer /\ ~SomeAnimating(comp))
           ~> (~animationTimer \/ SomeAnimating(comp))
\* cancelAnimations removed the last animating target and left the shared
\* timer active.
C14_Witness ==
    /\ animationTimer
    /\ \A r \in Renderers : ~comp[r].exists
    /\ \E e \in ev : e.tag = "clear" /\ e.y = 1

\* The children resumeAnimations acts on: the keyframe animations whose
\* declared play-state is running and the transitions that have their from
\* and to styles.
Restorable(a, s) ==
    IF s[1] = "K" THEN playStatePlaying(a) ELSE a.hasStyle
StillPaused(a) == a.pauseTime >= 0 \/ a.st \in PausedStates

\* C15: when resumeAnimations returns for a composite that was suspended, no
\* keyframe animation declared running and no transition with from/to styles
\* is paused any more (pauseTime >= 0 or a PAUSED_* state), whatever state the
\* child was in when the suspension came.
C15_ResumeRestoresChildren ==
    [][\A r \in Renderers :
          (op'[1] = "resumeAnimations" /\ comp[r].exists /\ comp[r].suspended) =>
              \A s \in Slots :
                  (GetA(comp'[r], s) # NoAnim /\ Restorable(GetA(comp'[r], s), s))
                      => ~StillPaused(GetA(comp'[r], s))]_vars

\* The child in slot s of the composite C affects the property p and is in
\* none of the states of the set.
ChildOutside(C, s, p, states) ==
    /\ GetA(C, s) # NoAnim
    /\ IF s[1] = "K" THEN p \in kfProps(GetA(C, s).decl) ELSE s[2] = p
    /\ GetA(C, s).st \notin states
ExcludedStates(isRunningNow) ==
    IF isRunningNow THEN {"DONE", "NEW", "START_WAIT_TIMER"} ELSE {"DONE"}

\* C16: isAnimatingProperty(target, p, isRunningNow) is true exactly when the
\* target has a composite with a child that affects p, is not DONE and, for
\* isRunningNow, is not NEW or START_WAIT_TIMER either; it is false for a
\* target without a composite; true with isRunningNow implies true without.
C16_IsAnimatingProperty ==
    \A r \in Renderers : \A p \in Props :
        /\ \A b \in BOOLEAN :
               isAnimatingPropertyOnRenderer(comp[r], p, b)
                   <=> (comp[r].exists /\ \E s \in Slots :
                            ChildOutside(comp[r], s, p, ExcludedStates(b)))
        /\ ~comp[r].exists =>
               \A b \in BOOLEAN : ~isAnimatingPropertyOnRenderer(comp[r], p, b)
        /\ isAnimatingPropertyOnRenderer(comp[r], p, TRUE)
               => isAnimatingPropertyOnRenderer(comp[r], p, FALSE)
\* A property animated by a child that is still waiting to start: the answer
\* is true without isRunningNow and false with it.
C16_Witness ==
    \E r \in Renderers : \E p \in Props :
        /\ isAnimatingPropertyOnRenderer(comp[r], p, FALSE)
        /\ ~isAnimatingPropertyOnRenderer(comp[r], p, TRUE)
\* A property whose only child is DONE: the answer is false.
C16_ReachedDone ==
    \E r \in Renderers : \E p \in Props :
        /\ \E s \in Slots : ChildOutside(comp[r], s, p, {}) /\ GetA(comp[r], s).st = "DONE"
        /\ ~isAnimatingPropertyOnRenderer(comp[r], p, FALSE)

\* The results of progress() and of the blends, as the calculations leave
\* them.
ProgressResults == {o \in ev : o.tag = "progress"}
BlendResults == {o \in ev : o.tag = "blend"}
IsZero(p) == p[1] = 0
IsOne(p) == p[1] = p[2]
AtMost(p, q) == p[1] * q[2] <= q[1] * p[2]
Total(d) == duration(d) * iterationCount(d)
Started(a) == a.st \in {"LOOPING", "ENDING"}

\* C17 as stated: progress is 0 before the animation is active and at elapsed
\* time 0 for every declared duration, and exactly 1 once it is DONE or the
\* elapsed time has reached duration x iterationCount (finite count).
C17_ProgressBoundaries ==
    \A o \in ProgressResults :
        /\ o.a.st \in {"NEW", "START_WAIT_TIMER", "START_WAIT_STYLE_AVAILABLE",
                       "START_WAIT_RESPONSE"} => IsZero(o.p1)
        /\ (Started(o.a) /\ o.e1 = 0) => IsZero(o.p1)
        /\ o.a.st = "DONE" => IsOne(o.p1)
        /\ (Started(o.a) /\ iterationCount(o.a.decl) > 0 /\ o.e1 >= Total(o.a.decl))
               => IsOne(o.p1)
\* C17 amended: the same for every declared duration above 0; with the
\* duration 0 progress is 1 as soon as the start time is confirmed.
C17_ProgressBoundariesPositiveDuration ==
    \A o \in ProgressResults :
        /\ o.a.st \in {"NEW", "START_WAIT_TIMER", "START_WAIT_STYLE_AVAILABLE",
                       "START_WAIT_RESPONSE"} => IsZero(o.p1)
        /\ (Started(o.a) /\ o.e1 = 0 /\ duration(o.a.decl) > 0) => IsZero(o.p1)
        /\ (Started(o.a) /\ duration(o.a.decl) = 0) => IsOne(o.p1)
        /\ o.a.st = "DONE" => IsOne(o.p1)
        /\ (Started(o.a) /\ iterationCount(o.a.decl) > 0 /\ o.e1 >= Total(o.a.decl))
               => IsOne(o.p1)
\* A started animation of two iterations seen at its start and at its end.
C17_Witness ==
    \E o \in ProgressResults :
        /\ Started(o.a) /\ duration(o.a.decl) = MaxDur /\ iterationCount(o.a.decl) = 2
        /\ o.e1 = 0 /\ IsZero(o.p1)
        /\ o.e2 = Total(o.a.decl) /\ IsOne(o.p2)
\* A started animation of duration 0 at its start.
C17_ReachedZeroDuration ==
    \E o \in ProgressResults :
        Started(o.a) /\ duration(o.a.decl) = 0 /\ o.e1 = 0 /\ IsOne(o.p1)

\* e1 <= e2, both within the total duration of a forward animation with a
\* finite count.
ForwardPair(o) ==
    /\ iterationCount(o.a.decl) > 0
    /\ ~direction(o.a.decl)
    /\ o.e1 <= o.e2 /\ o.e2 <= Total(o.a.decl)
SameIteration(o) ==
    duration(o.a.decl) > 0 => o.e1 \div duration(o.a.decl) = o.e2 \div duration(o.a.decl)

\* C18 as stated: with a finite count (any count >= 1), normal direction and
\* linear timing, progress does not decrease over the whole interval from 0
\* to duration x iterationCount.
C18_ProgressMonotone ==
    \A o \in ProgressResults : ForwardPair(o) => AtMost(o.p1, o.p2)
\* C18 amended: progress does not decrease within one iteration, nor from any
\* time to the end of the total duration; so with the count 1 it does not
\* decrease over the whole interval.
C18_ProgressMonotoneInIteration ==
    \A o \in ProgressResults :
        ForwardPair(o) =>
            /\ (SameIteration(o) \/ o.e2 = Total(o.a.decl)) => AtMost(o.p1, o.p2)
            /\ iterationCount(o.a.decl) = 1 => AtMost(o.p1, o.p2)
\* Progress grew strictly within the second iteration of a started animation.
C18_Witness ==
    \E o \in ProgressResults :
        /\ Started(o.a) /\ ForwardPair(o) /\ iterationCount(o.a.decl) = 2
        /\ o.e1 >= duration(o.a.decl) /\ o.e1 < o.e2 /\ o.e2 < Total(o.a.decl)
        /\ ~AtMost(o.p2, o.p1)

\* The value v of the type, a null shadow taken as the default shadow.
Shown(type, v) ==
    IF type = "ShadowData" /\ v = NullShadow THEN defaultShadowData ELSE v
Invisible(o) ==
    o.type = "EVisibility" /\ From(o) # "VISIBLE" /\ To(o) # "VISIBLE"

\* C19 as stated: for every blend strategy and every pair (from, to), the
\* blend at progress 0 is exactly 'from' and at progress 1 exactly 'to' (an
\* absent shadow being the transparent zero shadow).
C19_BlendRoundTrip ==
    \A o \in BlendResults :
        /\ o.pr = <<0, 1>> => Out(o) = Shown(o.type, From(o))
        /\ o.pr = <<1, 1>> => Out(o) = Shown(o.type, To(o))
\* C19 amended: the same, except that the visibility blend of two values
\* neither of which is visible is 'to' at every progress, also at 0.
C19_BlendRoundTripButInvisible ==
    \A o \in BlendResults :
        /\ (o.pr = <<0, 1>> /\ ~Invisible(o)) => Out(o) = Shown(o.type, From(o))
        /\ Invisible(o) => Out(o) = To(o)
        /\ o.pr = <<1, 1>> => Out(o) = Shown(o.type, To(o))
\* A shadow blended from no shadow at progress 0, and a visibility blended
\* from hidden to visible at progress 0.
C19_Witness ==
    \E o \in BlendResults :
        /\ o.type = "ShadowData" /\ From(o) = NullShadow /\ To(o) # NullShadow
        /\ o.pr = <<0, 1>> /\ Out(o) = defaultShadowData
C19_ReachedVisibility ==
    \E o \in BlendResults :
        /\ o.type = "EVisibility" /\ From(o) = "HIDDEN" /\ To(o) = "VISIBLE"
        /\ o.pr = <<0, 1>> /\ Out(o) = "HIDDEN"

\* C20: whenever an ImplicitAnimation is destroyed, on every path (replaced,
\* purged when finished, clear(target), teardown of the composite or of the
\* controller), its from and to snapshots have been released before: both are
\* null when the destructor runs.
C20_SnapshotsReleasedAtDestruction ==
    \A e \in ev : (e.tag = "destroyed" /\ e.slot[1] = "T") => e.x = 0

\* The style CompositeAnimation::animate handed back for r in the step.
Returns(r) == {e \in ev : e.tag = "returned" /\ e.r = r}

\* C21: CompositeAnimation::animate returns the target style object itself or
\* the one copy the pass allocated, and it returns the target style itself
\* exactly when no child wrote a blended value during the pass.
C21_TargetReturnedIffNothingWritten ==
    \A r \in Renderers : \A e \in Returns(r) :
        /\ e.y <= 1
        /\ e.x = e.y
        /\ (e.x = 0) <=> (Writes(r) = {})

\* The calls of updateStateMachine of the step that delivered the input to
\* the animation of slot s of r; a call is recorded with the states before
\* (slot[3]) and after (slot[4]).
Inputs(input) == {e \in ev : e.tag = input}
StartedStates ==
    {"START_WAIT_TIMER", "START_WAIT_STYLE_AVAILABLE", "START_WAIT_RESPONSE",
     "LOOPING", "ENDING"}
PausedStateOf(st) ==
    CASE st = "START_WAIT_TIMER" -> "PAUSED_WAIT_TIMER"
      [] st \in {"START_WAIT_STYLE_AVAILABLE", "START_WAIT_RESPONSE"}
           -> "PAUSED_WAIT_RESPONSE"
      [] st \in {"LOOPING", "ENDING"} -> "PAUSED_RUN"

\* C22: a pause request received in START_WAIT_TIMER,
\* START_WAIT_STYLE_AVAILABLE, START_WAIT_RESPONSE, LOOPING or ENDING leaves
\* the animation with pauseTime equal to the current time, no timer armed,
\* and in the matching paused state.
C22_PauseEntersPausedState ==
    \A e \in Inputs("PLAY_STATE_PAUSED") :
        e.slot[3] \in StartedStates =>
            /\ e.x = now
            /\ e.y = 0
            /\ e.slot[4] = PausedStateOf(e.slot[3])

\* The call of the step that delivered the input to the animation of slot s
\* of r when it was in the state before.
Delivered(e, r, s, before) ==
    e.r = r /\ e.slot[1] = s[1] /\ e.slot[2] = s[2] /\ e.slot[3] = before

\* C23: an animation resumed from PAUSED_WAIT_TIMER is in START_WAIT_TIMER
\* again with the start timer armed for the whole declared delay; and when
\* the start time of such an animation is then confirmed (style-available at
\* time t), its start time is t and the loop or end timer is armed a whole
\* iteration duration ahead.
C23_ResumedWaitRunsInFull ==
    [][\A r \in Renderers : \A s \in Slots :
          /\ \A e \in Inputs("PLAY_STATE_RUNNING")' :
                 Delivered(e, r, s, "PAUSED_WAIT_TIMER") =>
                     /\ e.slot[4] = "START_WAIT_TIMER"
                     /\ (Present(r, s)' /\ Anim(r, s)'.st = "START_WAIT_TIMER") =>
                            Anim(r, s)'.timer =
                                Timer("start", now' + delay(Anim(r, s)'.decl),
                                      delay(Anim(r, s)'.decl))
          /\ ( /\ Present(r, s)
               /\ Anim(r, s).resumedWait
               /\ Anim(r, s).st = "START_WAIT_STYLE_AVAILABLE"
               /\ \E e \in Inputs("START_TIME_SET")' :
                      Delivered(e, r, s, "START_WAIT_RESPONSE")
               /\ Present(r, s)' )
                  => /\ Anim(r, s)'.st \in {"LOOPING", "ENDING"}
                     /\ Anim(r, s)'.startTime = now'
                     /\ Anim(r, s)'.timer.at = now' + duration(Anim(r, s)'.decl)]_vars

\* The progress the paused animation a had at the instant of its pause: that
\* of the running animation it was at pauseTime, 0 if it had not become
\* active.
SameFraction(p, q) == p[1] * q[2] = q[1] * p[2]
ProgressAtPause(a) ==
    IF a.st = "PAUSED_RUN"
    THEN progress([a EXCEPT !.st = "LOOPING", !.pauseTime = -1], KeyDen, 0, a.pauseTime)
    ELSE <<0, 1>>

\* C24: while an animation is in a PAUSED_* state its progress stays what it
\* was at the instant of the pause, at whatever time it is computed during
\* the pause.
C24_ProgressFrozenWhilePaused ==
    \A r \in Renderers : \A s \in Slots :
        (Present(r, s) /\ Anim(r, s).st \in PausedStates) =>
            SameFraction(progress(Anim(r, s), KeyDen, 0, now), ProgressAtPause(Anim(r, s)))

\* The slots of r whose animation got style-available in the step while it
\* was in START_WAIT_STYLE_AVAILABLE.
GotStyle(r) ==
    {s \in Slots : \E e \in Inputs("STYLE_AVAILABLE") :
                       Delivered(e, r, s, "START_WAIT_STYLE_AVAILABLE")}

\* C25: when style-available is delivered to an animation in
\* START_WAIT_STYLE_AVAILABLE, the call returns with the animation in LOOPING
\* or ENDING, its loop or end timer armed, its start time the current time
\* unless it had one, and the waiter counts one lower for each such
\* animation; no animation is in START_WAIT_RESPONSE after the step that was
\* not there before it.
C25_StyleAvailableConfirmsInTurn ==
    [][\A r \in Renderers :
          /\ \A e \in Inputs("STYLE_AVAILABLE")' :
                 e.slot[3] = "START_WAIT_STYLE_AVAILABLE" =>
                     e.slot[4] \in {"LOOPING", "ENDING"} /\ e.y = 1
          /\ \A s \in GotStyle(r)' :
                 /\ Present(r, s) /\ Present(r, s)'
                 /\ Anim(r, s)'.st \in {"LOOPING", "ENDING"}
                 /\ Anim(r, s)'.timer.tag \in ArmedTimer(Anim(r, s)'.st)
                 /\ Anim(r, s)'.timer.at >= now'
                 /\ Anim(r, s)'.startTime =
                        IF Anim(r, s).startTime > 0 THEN Anim(r, s).startTime ELSE now'
          /\ Inputs("STYLE_AVAILABLE")' # {} =>
                 /\ comp'[r].waiters = comp[r].waiters - Cardinality(GotStyle(r)')
                 /\ \A s \in Slots :
                        (Present(r, s)' /\ Anim(r, s)'.st = "START_WAIT_RESPONSE")
                            => (Present(r, s) /\ Anim(r, s).st = "START_WAIT_RESPONSE")
          /\ Inputs("STYLE_AVAILABLE")' # {} =>
                 g' = g - Cardinality(UNION {{q} \X GotStyle(q)' : q \in Renderers})]_vars
\* Style-available was delivered to two animations of an element in one
\* call, and both are running with the current time as their start time.
C25_Witness ==
    \E r \in Renderers :
        /\ Cardinality(GotStyle(r)) = 2
        /\ \A s \in GotStyle(r) :
               Anim(r, s).st \in {"LOOPING", "ENDING"} /\ Anim(r, s).startTime = now
\* Style-available was delivered to an animation that goes on to loop, and
\* to one that had a start time.
C25_ReachedLooping ==
    \E r \in Renderers : \E s \in GotStyle(r) : Anim(r, s).st = "LOOPING"
C25_ReachedStartTimeKept ==
    \E r \in Renderers : \E s \in GotStyle(r) :
        Anim(r, s).startTime > 0 /\ Anim(r, s).startTime < now

\* The last operation destroyed the animation that was in slot s of r.
DestroyedIn(r, s) == \E e \in ev : e.tag = "destroyed" /\ e.r = r /\ e.slot = s

\* C26: STATE_INPUT_END_ANIMATION received in any state leaves the animation
\* in DONE with both timers cancelled and its waiter slot given back (the
\* counts are the numbers of children waiting); and an animation in DONE
\* stays in DONE, with no timer armed, through every operation that does not
\* destroy it, whatever inputs the operation delivers to it.
C26_ForceEndIsTerminal ==
    [][\A r \in Renderers :
          /\ \A e \in Inputs("END_ANIMATION")' :
                 e.r = r =>
                     /\ e.slot[4] = "DONE" /\ e.y = 0
                     /\ comp'[r].waiters = Cardinality(Waiting(r)')
                     /\ g' = SumOfWaiters(Renderers)'
                     /\ \A s \in Slots :
                            (Delivered(e, r, s, e.slot[3]) /\ ~DestroyedIn(r, s)')
                                => /\ Present(r, s)' /\ postactive(Anim(r, s)')
                                   /\ Anim(r, s)'.timer = NoTimer
                                   /\ Anim(r, s)'.evt = "none"
          /\ \A s \in Slots :
                 (Present(r, s) /\ postactive(Anim(r, s)) /\ ~DestroyedIn(r, s)')
                     => /\ Present(r, s)' /\ postactive(Anim(r, s)')
                        /\ Anim(r, s)'.timer = NoTimer
                        /\ \A e \in ev' :
                               (e.tag \in AllInputs /\ Delivered(e, r, s, "DONE"))
                                   => e.slot[4] = "DONE"]_vars
\* An animation force-ended while it waited for its start timer is still in
\* the map, in DONE.
C26_Witness ==
    \E r \in Renderers : \E s \in Slots : \E e \in Inputs("END_ANIMATION") :
        /\ Delivered(e, r, s, "START_WAIT_TIMER")
        /\ Present(r, s) /\ postactive(Anim(r, s))
\* A play-state input was delivered to an animation in DONE; an animation
\* was force-ended while it waited for the style, and one while it ran.
C26_ReachedInputInDone ==
    \E e \in Inputs("PLAY_STATE_PAUSED") : e.slot[3] = "DONE"
C26_ReachedEndWhileWaiting ==
    \E e \in Inputs("END_ANIMATION") : e.slot[3] = "START_WAIT_STYLE_AVAILABLE"
C26_ReachedEndWhileRunning ==
    \E e \in Inputs("END_ANIMATION") : e.slot[3] \in {"LOOPING", "ENDING", "PAUSED_RUN"}

\* C27: STATE_INPUT_RESTART_ANIMATION received in any state cancels the
\* timers, gives the waiter slot back, clears the start time and fires no
\* event; the call returns with the animation in START_WAIT_TIMER, its start
\* timer armed for the declared delay, if the animation was not paused when
\* the restart arrived, and in NEW if it was paused.
C27_RestartReenters ==
    [][\A r \in Renderers : \A s \in Slots : \A e \in Inputs("RESTART_ANIMATION")' :
          (Present(r, s) /\ Delivered(e, r, s, Anim(r, s).st)) =>
              /\ Present(r, s)'
              /\ Anim(r, s)'.startTime = 0
              /\ Anim(r, s)'.evt = "none"
              /\ Anim(r, s)'.waitingForEndEvent = Anim(r, s).waitingForEndEvent
              /\ comp'[r].waiters = Cardinality(Waiting(r)')
              /\ IF paused(Anim(r, s))
                 THEN Anim(r, s)'.st = "NEW" /\ Anim(r, s)'.timer = NoTimer
                 ELSE /\ Anim(r, s)'.st = "START_WAIT_TIMER"
                      /\ Anim(r, s)'.timer =
                             Timer("start", now' + delay(Anim(r, s)'.decl),
                                   delay(Anim(r, s)'.decl))]_vars

\* The state and the timer the claim gives the priming of animation a at
\* time t, for an iteration duration above 0.
NextIteration(a, t) ==
    (t - a.startTime) + duration(a.decl) - ((t - a.startTime) % duration(a.decl))
TotalPassed(a, t) ==
    iterationCount(a.decl) > 0
    /\ t - a.startTime >= duration(a.decl) * iterationCount(a.decl)
PrimedAsClaimed(a, t) ==
    /\ a.st = IF iterationCount(a.decl) <= 0
                 \/ NextIteration(a, t) < duration(a.decl) * iterationCount(a.decl)
              THEN "LOOPING" ELSE "ENDING"
    /\ a.timer.tag = IF a.st = "LOOPING" THEN "iter" ELSE "end"
    /\ a.timer.at = t + (IF TotalPassed(a, t) THEN 0
                         ELSE duration(a.decl) - ((t - a.startTime) % duration(a.decl)))
\* The animation of slot s of r has a finite count and a duration above 0,
\* was never paused, and its loop timer has always fired when due.
OnTimeRun(r, s) ==
    /\ Followed(r, s)
    /\ Anim(r, s).loops >= 0
    /\ duration(Anim(r, s).decl) > 0
    /\ iterationCount(Anim(r, s).decl) > 0

\* C28: for an animation with iteration duration d > 0 and finite count n
\* that is never paused and whose timers fire when due, the loop timer armed
\* after k - 1 firings is due at startTime + k x d and carries the elapsed
\* time k x d, with k <= n - 1; the end timer is armed after n - 1 loop
\* firings, due at startTime + n x d and carrying n x d; the animation is
\* DONE after exactly n - 1 loop firings; between two firings the run goes on:
\* while the timer armed in LOOPING or ENDING is not yet due, no step but a
\* pause takes the animation out of that state or disarms the timer, so that
\* each of the n - 1 loop firings and the end firing comes; and every priming
\* (start time confirmed, loop timer fired, on time or late) enters LOOPING
\* exactly when the next iteration boundary is before the total duration or
\* the count is infinite, ENDING otherwise, arming d - (elapsed mod d), or 0
\* when the total duration has passed.
C28_TimersOverWholeRun ==
    [][\A r \in Renderers : \A s \in Slots :
          /\ (Present(r, s)' /\ OnTimeRun(r, s)') =>
                 /\ Anim(r, s)'.st = "LOOPING" =>
                        /\ Anim(r, s)'.loops + 1 <= iterationCount(Anim(r, s)'.decl) - 1
                        /\ Anim(r, s)'.timer =
                               Timer("iter",
                                     Anim(r, s)'.startTime
                                       + (Anim(r, s)'.loops + 1) * duration(Anim(r, s)'.decl),
                                     (Anim(r, s)'.loops + 1) * duration(Anim(r, s)'.decl))
                 /\ Anim(r, s)'.st = "ENDING" =>
                        /\ Anim(r, s)'.loops = iterationCount(Anim(r, s)'.decl) - 1
                        /\ Anim(r, s)'.timer =
                               Timer("end",
                                     Anim(r, s)'.startTime
                                       + iterationCount(Anim(r, s)'.decl)
                                           * duration(Anim(r, s)'.decl),
                                     iterationCount(Anim(r, s)'.decl)
                                       * duration(Anim(r, s)'.decl))
                 /\ Anim(r, s)'.st = "DONE" =>
                        /\ Anim(r, s)'.loops = iterationCount(Anim(r, s)'.decl) - 1
                        /\ Anim(r, s)'.timer = NoTimer
                 /\ Anim(r, s)'.st \notin {"LOOPING", "ENDING", "DONE"} =>
                        Anim(r, s)'.loops = 0
          /\ ( /\ Present(r, s) /\ OnTimeRun(r, s)
               /\ Anim(r, s).st \in {"LOOPING", "ENDING"}
               /\ Anim(r, s).timer.at > now
               /\ Present(r, s)' /\ ~paused(Anim(r, s)') )
                 => /\ Anim(r, s)'.st = Anim(r, s).st
                    /\ Anim(r, s)'.timer = Anim(r, s).timer
          /\ \A e \in (Inputs("START_TIME_SET") \cup Inputs("LOOP_TIMER_FIRED"))' :
                 ( /\ Delivered(e, r, s, e.slot[3])
                   /\ e.slot[3] \in {"START_WAIT_RESPONSE", "LOOPING"}
                   /\ Present(r, s)'
                   /\ Followed(r, s)'
                   /\ duration(Anim(r, s)'.decl) > 0 )
                     => PrimedAsClaimed(Anim(r, s)', now')]_vars
\* A run of three iterations has ended on time: the loop timer fired twice.
C28_ReachedWholeRun ==
    \E r \in Renderers : \E s \in Slots :
        /\ Present(r, s) /\ OnTimeRun(r, s)
        /\ Anim(r, s).st = "DONE"
        /\ iterationCount(Anim(r, s).decl) = 3
        /\ Anim(r, s).loops = 2
\* A loop timer fired late, after the total duration: the end timer was armed
\* for no delay.
C28_ReachedLatePriming ==
    \E r \in Renderers : \E s \in Slots :
        /\ Followed(r, s) /\ Anim(r, s).loops = -1
        /\ Anim(r, s).st = "ENDING"
        /\ Anim(r, s).timer.at = now
        /\ TotalPassed(Anim(r, s), now)
        /\ \E e \in Inputs("LOOP_TIMER_FIRED") : Delivered(e, r, s, "LOOPING")

\* The state in which a timer of the tag is armed.
ArmingState(tag) ==
    CASE tag = "start" -> "START_WAIT_TIMER"
      [] tag = "iter" -> "LOOPING"
      [] tag = "end" -> "ENDING"
TimerInputs == {"START_TIMER_FIRED", "LOOP_TIMER_FIRED", "END_TIMER_FIRED"}

\* C29: an animation with a start, loop or end timer armed is in the state
\* that armed it (START_WAIT_TIMER, LOOPING, ENDING), whatever pauses,
\* force-ends, restarts, overrides and resumptions it went through; and every
\* timer input delivered by a firing found the animation in that state.
C29_NoStaleTimer ==
    /\ \A r \in Renderers : \A s \in Slots :
           (Present(r, s) /\ Anim(r, s).timer.tag # "off") =>
               Anim(r, s).st = ArmingState(Anim(r, s).timer.tag)
    /\ \A e \in ev :
           e.tag \in TimerInputs =>
               \E tag \in {"start", "iter", "end"} :
                   e.tag = InputOfTimer(tag) /\ e.slot[3] = ArmingState(tag)

\* A timer fired for an animation that had been paused and resumed before.
C29_Witness ==
    \E r \in Renderers : \E s \in Slots : \E e \in ev :
        /\ e.tag \in TimerInputs
        /\ Present(r, s) /\ Delivered(e, r, s, e.slot[3])
        /\ ~Followed(r, s)
\* A pause and a force-end arrived while a timer was armed.
C29_ReachedPauseWhileArmed ==
    \E e \in Inputs("PLAY_STATE_PAUSED") : e.slot[3] \in {"START_WAIT_TIMER", "LOOPING", "ENDING"}
C29_ReachedEndWhileArmed ==
    \E e \in Inputs("END_ANIMATION") : e.slot[3] \in {"START_WAIT_TIMER", "LOOPING", "ENDING"}

\* C30: no call of updateStateMachine made by a public operation fails an
\* ASSERT of the state it finds (on the input, on the parameter, on
\* running()), and a play-state-running input is delivered only in NEW or in
\* a PAUSED_* state.
C30_InputsPassTheAsserts ==
    /\ \A e \in ev : e.tag # "assert"
    /\ \A e \in Inputs("PLAY_STATE_RUNNING") : e.slot[3] \in {"NEW"} \cup PausedStates

\* C31: no operation destroys an ImplicitAnimation that is waiting for its
\* transition-end event to be delivered: the ASSERT(0) of the destructor is
\* never met.
C31_NoTransitionDestroyedWhileWaiting ==
    \A e \in ev : e.tag # "assert0"

\* The renderers whose composite the last operation ran animate() on.
AnimatedNow == {e.r : e \in {x \in ev : x.tag = "returned"}}
Finished(r, s) ==
    Present(r, s) /\ postactive(Anim(r, s)) /\ ~Anim(r, s).waitingForEndEvent

\* C32: when animate() has returned on a composite that is not suspended,
\* neither map holds a child that is in DONE and does not wait for its end
\* event, and every child the purge of the pass deleted was in DONE and did
\* not wait for its end event.
C32_FinishedChildrenPurged ==
    \A r \in AnimatedNow :
        ~comp[r].suspended =>
            /\ \A s \in Slots : ~Finished(r, s)
            /\ \A e \in ev : (e.tag = "purged" /\ e.r = r) => (e.x = 0 /\ e.y = 1)
\* A pass purged a child.
C32_Witness ==
    \E r \in AnimatedNow :
        /\ ~comp[r].suspended
        /\ \E e \in ev : e.tag = "purged" /\ e.r = r
\* A pass purged a child that was force-ended in the same pass; a pass kept
\* a child in DONE that waits for its end event.
C32_ReachedForceEndedInPass ==
    \E r \in AnimatedNow : \E e \in ev : \E f \in Inputs("END_ANIMATION") :
        /\ e.tag = "purged" /\ e.r = r /\ f.r = r
        /\ f.slot[1] = e.slot[1] /\ f.slot[2] = e.slot[2]
C32_ReachedKeptWaiting ==
    \E r \in AnimatedNow : \E s \in Slots :
        /\ ~comp[r].suspended
        /\ Present(r, s) /\ postactive(Anim(r, s)) /\ Anim(r, s).waitingForEndEvent

\* The child of slot s of r is in DONE with m_waitingForEndEvent set: the
\* purge passes it over.
DoneWaiting(r, s) ==
    Present(r, s) /\ postactive(Anim(r, s)) /\ Anim(r, s).waitingForEndEvent

\* C33: under the fair host whose timers all fire, no child stays in DONE
\* with its waiting-for-end-event flag set from some time on (the flag is
\* cleared by the delivery, and the purge of a later pass removes the child).
C33_NoChildWaitsForever ==
    \A r \in Renderers : \A s \in Slots : []<>(~DoneWaiting(r, s))

\* C34: in a suspended composite no child is in START_WAIT_TIMER, LOOPING or
\* ENDING with its timer armed, whatever operations ran since the suspension.
C34_SuspendedDoesNotAdvance ==
    \A r \in Renderers : \A s \in Slots :
        (comp[r].exists /\ comp[r].suspended /\ Present(r, s)) =>
            ~(/\ Anim(r, s).st \in {"START_WAIT_TIMER", "LOOPING", "ENDING"}
              /\ Anim(r, s).timer.tag # "off")

\* The passes in which the keyframe scan found no bracketing pair.
NoPairs == {e \in ev : e.tag = "nopair"}

\* C35: when the keyframe scan of KeyframeAnimation::animate finds no
\* bracketing pair, the animation is in DONE with no timer armed when animate
\* returns, it has written no value in the pass, and if it is in the map
\* after the pass it is in DONE with no timer armed.
C35_NoPairForcesEnd ==
    \A e \in NoPairs :
        /\ e.x = 1 /\ e.y = 0
        /\ \A w \in Writes(e.r) : ~(w.slot[1] = "K" /\ w.slot[2] = e.slot[2])
        /\ Present(e.r, e.slot) =>
               /\ postactive(Anim(e.r, e.slot))
               /\ Anim(e.r, e.slot).timer = NoTimer
               /\ Anim(e.r, e.slot).evt = "none"
\* The scan found no pair for an animation that had started and had its
\* timer armed.
C35_Witness ==
    \E e \in NoPairs : \E f \in Inputs("END_ANIMATION") :
        /\ f.r = e.r /\ f.slot[1] = "K" /\ f.slot[2] = e.slot[2]
        /\ f.slot[3] \in {"LOOPING", "ENDING"}
\* The scan found no pair in the first pass of an animation without delay.
C35_ReachedAtStart ==
    \E e \in NoPairs : \E f \in Inputs("END_ANIMATION") :
        /\ f.r = e.r /\ f.slot[1] = "K" /\ f.slot[2] = e.slot[2]
        /\ f.slot[3] = "START_WAIT_TIMER"

\* The keyframe list of declaration d is well formed: first key 0, last key
\* 1, keys in non-decreasing order.
WellFormed(d) ==
    /\ ~kfIsEmpty(d)
    /\ keyframeList(d).frames[1].key = 0
    /\ keyframeList(d).frames[Len(keyframeList(d).frames)].key = KeyDen
    /\ \A i \in 1..(Len(keyframeList(d).frames) - 1) :
           keyframeList(d).frames[i].key <= keyframeList(d).frames[i + 1].key

\* C36: the keyframe scan finds a bracketing pair for every animation whose
\* keyframe list is well formed, at every time it is stepped: an animation
\* for which a pass found no pair was declared with a list that is not well
\* formed.
C36_WellFormedAlwaysBrackets ==
    \A e \in NoPairs : \A i \in 1..Len(rstyle[e.r].anims) :
        rstyle[e.r].anims[i].key = e.slot[2] => ~WellFormed(rstyle[e.r].anims[i])

\* The records of one kind the blends of the last pass left for r and n.
BlendsOf(tag, r, n) == {e \in ev : e.tag = tag /\ e.r = r /\ e.slot = <<"K", n>>}

\* C37: in every blend of a keyframe animation the pair chosen brackets the
\* direction-adjusted fraction t of the scan (key_from <= t < key_to) and the
\* progress handed to the blender is (t - key_from) / (key_to - key_from),
\* which lies between 0 and 1.
C37_LocalProgressOfThePair ==
    \A r \in Renderers : \A n \in Names :
        \A t \in BlendsOf("fraction", r, n) : \A p \in BlendsOf("pair", r, n) :
            \A l \in BlendsOf("local", r, n) :
                /\ p.x * t.y <= t.x * KeyDen
                /\ t.x * KeyDen < p.y * t.y
                /\ l.x * t.y * (p.y - p.x) = l.y * (t.x * KeyDen - p.x * t.y)
                /\ 0 <= l.x /\ l.x <= l.y

\* C38: no pass of CompositeAnimation::animate writes a blended value into the
\* target style object: the style being built changes from null to a copy or
\* to the target style object once and stays, so a pass whose children wrote
\* hands back the copy they wrote into.
C38_BlendsGoToACopy ==
    \A r \in Renderers : \A e \in Returns(r) : Writes(r) # {} => e.x = 1

\* C39: every transition that updateTransitions compares with the new target
\* style (isTargetPropertyEqual) has its 'to' snapshot: no comparison reads a
\* transition that was created and has not been given its styles yet.
C39_ComparedTransitionHasTarget == \A e \in ev : e.tag # "nullstyle"

\* The children of r given STYLE_AVAILABLE by the last operation, and the
\* calls of styleAvailable on the composite of r.
Availables(r) == {e \in ev : e.tag = "available" /\ e.r = r}
StyleAvailableCalls == {e \in ev : e.tag = "styleAvailable"}

\* C40: CompositeAnimation::styleAvailable gives STYLE_AVAILABLE only to
\* children in START_WAIT_STYLE_AVAILABLE, to the waiting keyframe animations
\* in increasing index and before any waiting transition, and to none when the
\* composite's waiter count is zero; the controller's styleAvailable calls no
\* composite when its waiter count is zero.
C40_StyleAvailableInOrder ==
    [][/\ \A e \in Inputs("STYLE_AVAILABLE")' :
              e.slot[3] = "START_WAIT_STYLE_AVAILABLE"
       /\ \A r \in Renderers : \A d \in Availables(r)' : \A e \in Availables(r)' :
              /\ (d.slot[1] = "K" /\ e.slot[1] = "K" /\ d.y < e.y) => d.x < e.x
              /\ (d.slot[1] = "K" /\ e.slot[1] = "T") => d.x < e.x
       /\ \A c \in StyleAvailableCalls' :
              c.x = 0 => \A e \in Inputs("STYLE_AVAILABLE")' : e.r # c.r
       /\ g = 0 => StyleAvailableCalls' = {} /\ Inputs("STYLE_AVAILABLE")' = {}]_vars
\* Two keyframe animations of an element were given STYLE_AVAILABLE by one
\* call; a keyframe animation and a transition were; a composite was called
\* with no waiter.
C40_Witness ==
    \E r \in Renderers : \E d \in Availables(r) : \E e \in Availables(r) :
        d.slot[1] = "K" /\ e.slot[1] = "K" /\ d.y < e.y
C40_ReachedTransitionToo ==
    \E r \in Renderers : \E d \in Availables(r) : \E e \in Availables(r) :
        d.slot[1] = "K" /\ e.slot[1] = "T"
C40_ReachedNoWaiter == \E c \in StyleAvailableCalls : c.x = 0

============================================================================
